---- MODULE Spec2Model ----
(***************************************************************************)
(* A model of the ZXS Z80 core (src/z80.c with the header                  *)
(* src/unnamed/part_001) and of the host shell around it (src/zxs.c).     *)
(* The CPU is the record cpu, the host memory is the sparse function mem   *)
(* (an address that is not in its domain holds 0), the statics of the      *)
(* host shell are the record host, and every entry point of the core and   *)
(* every iteration of a host loop is one action.                           *)
(***************************************************************************)
EXTENDS Integers, Sequences, FiniteSets, TLC

VARIABLES cpu, mem, out, ret, hist, calls, host

vars == <<cpu, mem, out, ret, hist, calls, host>>

(* ---- flag bit positions ------------------------------------------------ *)
Z80_SF == 128
Z80_ZF == 64
Z80_YF == 32
Z80_HF == 16
Z80_XF == 8
Z80_PF == 4
Z80_NF == 2
Z80_CF == 1

(* ---- machine integers -------------------------------------------------- *)
RECURSIVE And(_, _)
And(a, b) == IF a = 0 \/ b = 0 THEN 0
             ELSE (a % 2) * (b % 2) + 2 * And(a \div 2, b \div 2)

RECURSIVE Or(_, _)
Or(a, b) == IF a = 0 THEN b ELSE IF b = 0 THEN a
            ELSE (IF a % 2 = 1 \/ b % 2 = 1 THEN 1 ELSE 0) + 2 * Or(a \div 2, b \div 2)

RECURSIVE Xor(_, _)
Xor(a, b) == IF a = 0 THEN b ELSE IF b = 0 THEN a
             ELSE ((a + b) % 2) + 2 * Xor(a \div 2, b \div 2)

U8(n)  == n % 256
U16(n) == n % 65536
Not8(a) == 255 - a
(* (int8_t)v *)
S8(v) == IF v >= 128 THEN v - 256 ELSE v
Hi(w) == (w \div 256) % 256
Lo(w) == w % 256
Word(hi, lo) == hi * 256 + lo

(* ---- opcode bit fields ------------------------------------------------- *)
X(op) == op \div 64
Y(op) == (op \div 8) % 8
Z(op) == op % 8
P(op) == (op \div 16) % 4
Q(op) == (op \div 8) % 2

(* ---- flag tables ------------------------------------------------------- *)
RECURSIVE Ones(_)
Ones(i) == IF i = 0 THEN 0 ELSE (i % 2) + Ones(i \div 2)

parity == [i \in 0..255 |-> IF Ones(i) % 2 = 1 THEN 0 ELSE Z80_PF]

sz53p == [i \in 0..255 |->
            And(i, Z80_SF + Z80_YF + Z80_XF) + parity[i]
            + (IF i = 0 THEN Z80_ZF ELSE 0)]

(* ---- memory and I/O through the callbacks ------------------------------ *)
(* s is the machine during one call: s.c the z80 struct, s.mem the host    *)
(* memory, s.out the last io_write, s.inb the byte the test harness's      *)
(* io_read returns, s.host the statics of the host shell, s.clk the        *)
(* T-states the handler returns.                                           *)
MemRead(m, addr) == IF addr \in DOMAIN m THEN m[addr] ELSE 0

MemWrite(m, addr, val) ==
    IF val = 0 THEN [x \in (DOMAIN m) \ {addr} |-> m[x]]
    ELSE [x \in (DOMAIN m) \cup {addr} |-> IF x = addr THEN val ELSE m[x]]

(* faulty variant of mem_write: the ROM area is written like any other *)
mem_write_unprotected(s, addr, val) == [s EXCEPT !.mem = MemWrite(@, addr, val)]

(* the mem_write callback: writes below rom_size are dropped *)
mem_write(s, addr, val) ==
    IF addr < s.host.rom_size THEN s
    ELSE [s EXCEPT !.mem = MemWrite(@, addr, val)]

RB(s, addr) == MemRead(s.mem, U16(addr))
WB(s, addr, val) == mem_write(s, U16(addr), U8(val))
RW(s, addr) == RB(s, addr) + 256 * RB(s, addr + 1)
WW(s, addr, val) == WB(WB(s, addr, Lo(val)), addr + 1, Hi(val))

(* ---- the MC6850 ACIA of the BASIC SBC ----------------------------------- *)
(* s.host.stdin is what stdin holds during this call: <<>> or one byte *)
acia_poll(s) ==
    IF s.host.acia_rx_full # 0 \/ s.host.stdin = <<>> THEN s
    ELSE [s EXCEPT !.host.acia_rx_data = Head(s.host.stdin),
                   !.host.acia_rx_full = 1,
                   !.host.stdin = <<>>]

(* the status byte, read after acia_poll: TDRE, RDRF, IRQ *)
acia_status(s) ==
    2 + (IF s.host.acia_rx_full # 0 THEN 1 ELSE 0)
      + (IF s.host.acia_control >= 128 /\ s.host.acia_rx_full # 0 THEN 128 ELSE 0)
acia_read_status(s) == acia_status(acia_poll(s))

acia_read_data(s) == s.host.acia_rx_data

(* faulty variant of acia_write_control: a master reset leaves RDRF alone *)
acia_write_control_keeps_rdrf(s, val) == [s EXCEPT !.host.acia_control = val]

acia_write_control(s, val) ==
    IF val % 4 = 3
    THEN [s EXCEPT !.host.acia_control = val, !.host.acia_rx_full = 0,
                   !.host.acia_rx_data = 0]
    ELSE [s EXCEPT !.host.acia_control = val]

(* the io_read callback of the BASIC SBC: the byte it returns, and the      *)
(* machine after the read (a status read polls stdin, a data read clears    *)
(* RDRF)                                                                    *)
sys_basic_io_read(s, port) ==
    LET addr == port % 256
    IN  IF addr >= 128
        THEN IF addr % 2 = 1 THEN acia_read_data(s) ELSE acia_read_status(s)
        ELSE 255
sys_basic_io_read_done(s, port) ==
    LET addr == port % 256
    IN  IF addr >= 128
        THEN IF addr % 2 = 1 THEN [s EXCEPT !.host.acia_rx_full = 0]
             ELSE acia_poll(s)
        ELSE s

sys_basic_io_write(s, port, val) ==
    LET addr == port % 256
    IN  IF addr >= 128 /\ addr % 2 = 0 THEN acia_write_control(s, val) ELSE s

(* ---- the io callbacks of the three hosts: the test harness, the BASIC   *)
(* SBC and the CP/M shell                                                   *)
io_read(s, port) ==
    CASE s.host.sys = "basic" -> sys_basic_io_read(s, port)
      [] s.host.sys = "cpm" -> 255
      [] OTHER -> s.inb
(* the machine after io_read *)
io_done(s, port) ==
    IF s.host.sys = "basic" THEN sys_basic_io_read_done(s, port) ELSE s
io_write(s, port, val) ==
    CASE s.host.sys = "basic" ->
            [sys_basic_io_write(s, port, val) EXCEPT !.out = <<U16(port), val>>]
      [] s.host.sys = "cpm" -> s
      [] OTHER -> [s EXCEPT !.out = <<U16(port), val>>]

FETCH(s) == RB(s, s.c.pc)
AdvPC(s, n) == [s EXCEPT !.c.pc = U16(@ + n)]
Fetch16(s) == RW(s, s.c.pc)

AF(s) == Word(s.c.a, s.c.f)
BC(s) == Word(s.c.b, s.c.c)
DE(s) == Word(s.c.d, s.c.e)
HL(s) == Word(s.c.h, s.c.l)

SET_AF(s, v) == [s EXCEPT !.c.a = Hi(v), !.c.f = Lo(v)]
SET_BC(s, v) == [s EXCEPT !.c.b = Hi(v), !.c.c = Lo(v)]
SET_DE(s, v) == [s EXCEPT !.c.d = Hi(v), !.c.e = Lo(v)]
SET_HL(s, v) == [s EXCEPT !.c.h = Hi(v), !.c.l = Lo(v)]

(* faulty variant of PUSH: the high byte goes to the lower address *)
PUSH_high_byte_first(s, val) ==
    LET s1 == [s EXCEPT !.c.sp = U16(@ - 2)]
    IN  WB(WB(s1, s1.c.sp, Hi(val)), s1.c.sp + 1, Lo(val))

PUSH(s, val) ==
    LET s1 == [s EXCEPT !.c.sp = U16(@ - 2)]
    IN  WW(s1, s1.c.sp, val)

(* POP(): the value read, and the machine with SP advanced *)
PopVal(s) == RW(s, s.c.sp)
PopSP(s) == [s EXCEPT !.c.sp = U16(@ + 2)]

(* faulty variant of INC_R: R counts through all eight bits *)
INC_R_8bit(s) == [s EXCEPT !.c.r = U8(@ + 1)]

INC_R(s) == [s EXCEPT !.c.r = And(@, 128) + And(@ + 1, 127)]

SetF(s, f) == [s EXCEPT !.c.f = f]
SetClk(s, n) == [s EXCEPT !.clk = n]

(* ---- ALU ---------------------------------------------------------------- *)
(* signed overflow of an 8-bit add: bit 7 of (a ^ ~val) & (a ^ r), moved to PF *)
OvfAdd8(a, val, r) == And(And(Xor(a, Not8(val)), Xor(a, U8(r))) \div 32, Z80_PF)
OvfSub8(a, val, r) == And(And(Xor(a, val), Xor(a, U8(r))) \div 32, Z80_PF)

alu_add8(s, val) ==
    LET a == s.c.a
        r == a + val
        halfr == U8(And(a, 15) + And(val, 15))
        f == Or(Or(sz53p[U8(r)], And(halfr, Z80_HF)),
                Or(And(r \div 256, Z80_CF), OvfAdd8(a, val, r)))
    IN  [s EXCEPT !.c.f = f, !.c.a = U8(r)]

alu_adc8(s, val) ==
    LET a == s.c.a
        c == And(s.c.f, Z80_CF)
        r == a + val + c
        halfr == U8(And(a, 15) + And(val, 15) + c)
        f == Or(Or(sz53p[U8(r)], And(halfr, Z80_HF)),
                Or(And(r \div 256, Z80_CF), OvfAdd8(a, val, r)))
    IN  [s EXCEPT !.c.f = f, !.c.a = U8(r)]

alu_sub8(s, val) ==
    LET a == s.c.a
        r == U16(a - val)
        halfr == U8(And(a, 15) - And(val, 15))
        f == Or(Or(Or(sz53p[U8(r)], Z80_NF), And(halfr, Z80_HF)),
                Or(And(r \div 256, Z80_CF), OvfSub8(a, val, r)))
    IN  [s EXCEPT !.c.f = f, !.c.a = U8(r)]

alu_sbc8(s, val) ==
    LET a == s.c.a
        c == And(s.c.f, Z80_CF)
        r == U16(a - val - c)
        halfr == U8(And(a, 15) - And(val, 15) - c)
        f == Or(Or(Or(sz53p[U8(r)], Z80_NF), And(halfr, Z80_HF)),
                Or(And(r \div 256, Z80_CF), OvfSub8(a, val, r)))
    IN  [s EXCEPT !.c.f = f, !.c.a = U8(r)]

alu_and(s, val) ==
    LET a == And(s.c.a, val)
    IN  [s EXCEPT !.c.a = a, !.c.f = Or(sz53p[a], Z80_HF)]

alu_xor(s, val) ==
    LET a == Xor(s.c.a, val)
    IN  [s EXCEPT !.c.a = a, !.c.f = sz53p[a]]

alu_or(s, val) ==
    LET a == Or(s.c.a, val)
    IN  [s EXCEPT !.c.a = a, !.c.f = sz53p[a]]

alu_cp(s, val) ==
    LET a == s.c.a
        r == U16(a - val)
        halfr == U8(And(a, 15) - And(val, 15))
        f == Or(Or(Or(And(sz53p[U8(r)], 255 - (Z80_YF + Z80_XF)),
                      And(val, Z80_YF + Z80_XF)),
                   Or(Z80_NF, And(halfr, Z80_HF))),
                Or(And(r \div 256, Z80_CF), OvfSub8(a, val, r)))
    IN  [s EXCEPT !.c.f = f]

(* alu_inc8 / alu_dec8 return the result and set F: the pair of operators   *)
(* Inc8F/Dec8F gives the flags, the caller stores U8(val +- 1)              *)
Inc8F(f, val) ==
    Or(Or(And(f, Z80_CF), sz53p[U8(val + 1)]),
       Or(IF And(val, 15) = 15 THEN Z80_HF ELSE 0,
          IF val = 127 THEN Z80_PF ELSE 0))

Dec8F(f, val) ==
    Or(Or(Or(And(f, Z80_CF), sz53p[U8(val - 1)]), Z80_NF),
       Or(IF And(val, 15) = 0 THEN Z80_HF ELSE 0,
          IF val = 128 THEN Z80_PF ELSE 0))

alu_inc8(s, val) == SetF(s, Inc8F(s.c.f, val))
alu_dec8(s, val) == SetF(s, Dec8F(s.c.f, val))

(* alu_add16: the new flags and the 16-bit sum of dest and val *)
Add16F(f, dest, val) ==
    LET r == dest + val
        halfr == And(dest, 4095) + And(val, 4095)
    IN  Or(Or(And(f, Z80_SF + Z80_ZF + Z80_PF), And(r \div 65536, Z80_CF)),
           Or(And(halfr \div 256, Z80_HF), And(r \div 256, Z80_YF + Z80_XF)))

alu_add16(s, dest, val) == SetF(s, Add16F(s.c.f, dest, val))

alu_adc16(s, val) ==
    LET c == And(s.c.f, Z80_CF)
        hl == HL(s)
        r == hl + val + c
        halfr == And(hl, 4095) + And(val, 4095) + c
        ovf == And(And(Xor(hl, 65535 - val), Xor(hl, U16(r))) \div 8192, Z80_PF)
        f == Or(Or(And(r \div 256, Z80_SF + Z80_YF + Z80_XF),
                   IF U16(r) = 0 THEN Z80_ZF ELSE 0),
                Or(Or(And(halfr \div 256, Z80_HF), And(r \div 65536, Z80_CF)), ovf))
    IN  SET_HL(SetF(s, f), U16(r))

alu_sbc16(s, val) ==
    LET c == And(s.c.f, Z80_CF)
        hl == HL(s)
        d == hl - val - c
        r == U16(d)
        halfr == U16(And(hl, 4095) - And(val, 4095) - c)
        ovf == And(And(Xor(hl, val), Xor(hl, U16(r))) \div 8192, Z80_PF)
        f == Or(Or(Or(And(r \div 256, Z80_SF + Z80_YF + Z80_XF),
                      IF r = 0 THEN Z80_ZF ELSE 0),
                   Or(And(halfr \div 256, Z80_HF), Z80_NF)),
                Or(IF d < 0 THEN Z80_CF ELSE 0, ovf))
    IN  SET_HL(SetF(s, f), U16(r))

(* ---- rotate/shift helpers: r the result, f the new F --------------------- *)
RotOut(r, c) == [r |-> r, f |-> Or(sz53p[r], c)]

rot_rlc(s, val) == LET c == val \div 128 IN RotOut(Or(U8(val * 2), c), c)
rot_rrc(s, val) == LET c == val % 2 IN RotOut(Or(val \div 2, c * 128), c)
rot_rl(s, val)  == LET c == val \div 128 IN RotOut(Or(U8(val * 2), And(s.c.f, Z80_CF)), c)
rot_rr(s, val)  == LET c == val % 2 IN RotOut(Or(val \div 2, U8(And(s.c.f, Z80_CF) * 128)), c)
rot_sla(s, val) == LET c == val \div 128 IN RotOut(U8(val * 2), c)
rot_sra(s, val) == LET c == val % 2 IN RotOut(Or(val \div 2, And(val, 128)), c)
rot_sll(s, val) == LET c == val \div 128 IN RotOut(Or(U8(val * 2), 1), c)
rot_srl(s, val) == LET c == val % 2 IN RotOut(val \div 2, c)

(* the switch (y) shared by exec_cb and exec_ddfdcb *)
RotByY(s, y, val) ==
    CASE y = 0 -> rot_rlc(s, val)
      [] y = 1 -> rot_rrc(s, val)
      [] y = 2 -> rot_rl(s, val)
      [] y = 3 -> rot_rr(s, val)
      [] y = 4 -> rot_sla(s, val)
      [] y = 5 -> rot_sra(s, val)
      [] y = 6 -> rot_sll(s, val)
      [] OTHER -> rot_srl(s, val)

(* ---- BIT/RES/SET helpers ------------------------------------------------- *)
Pow2(n) == CASE n = 0 -> 1 [] n = 1 -> 2 [] n = 2 -> 4 [] n = 3 -> 8
             [] n = 4 -> 16 [] n = 5 -> 32 [] n = 6 -> 64 [] OTHER -> 128

op_bit(s, bit, val) ==
    LET r == And(val, Pow2(bit))
    IN  SetF(s, Or(Or(And(s.c.f, Z80_CF), Z80_HF),
                   Or(IF r # 0 THEN And(r, Z80_SF) ELSE Z80_ZF + Z80_PF,
                      And(val, Z80_YF + Z80_XF))))

op_bit_idx(s, bit, val, addrhi) ==
    LET r == And(val, Pow2(bit))
    IN  SetF(s, Or(Or(And(s.c.f, Z80_CF), Z80_HF),
                   Or(IF r # 0 THEN And(r, Z80_SF) ELSE Z80_ZF + Z80_PF,
                      And(addrhi, Z80_YF + Z80_XF))))

(* ---- condition codes ----------------------------------------------------- *)
eval_cc(s, cc) ==
    CASE cc = 0 -> And(s.c.f, Z80_ZF) = 0
      [] cc = 1 -> And(s.c.f, Z80_ZF) # 0
      [] cc = 2 -> And(s.c.f, Z80_CF) = 0
      [] cc = 3 -> And(s.c.f, Z80_CF) # 0
      [] cc = 4 -> And(s.c.f, Z80_PF) = 0
      [] cc = 5 -> And(s.c.f, Z80_PF) # 0
      [] cc = 6 -> And(s.c.f, Z80_SF) = 0
      [] OTHER  -> And(s.c.f, Z80_SF) # 0

(* ---- registers by index -------------------------------------------------- *)
get_reg(s, idx) ==
    CASE idx = 0 -> s.c.b
      [] idx = 1 -> s.c.c
      [] idx = 2 -> s.c.d
      [] idx = 3 -> s.c.e
      [] idx = 4 -> s.c.h
      [] idx = 5 -> s.c.l
      [] idx = 6 -> RB(s, HL(s))
      [] OTHER   -> s.c.a

set_reg(s, idx, val) ==
    CASE idx = 0 -> [s EXCEPT !.c.b = val]
      [] idx = 1 -> [s EXCEPT !.c.c = val]
      [] idx = 2 -> [s EXCEPT !.c.d = val]
      [] idx = 3 -> [s EXCEPT !.c.e = val]
      [] idx = 4 -> [s EXCEPT !.c.h = val]
      [] idx = 5 -> [s EXCEPT !.c.l = val]
      [] idx = 6 -> WB(s, HL(s), val)
      [] OTHER   -> [s EXCEPT !.c.a = val]

get_rp(s, idx) ==
    CASE idx = 0 -> BC(s) [] idx = 1 -> DE(s) [] idx = 2 -> HL(s) [] OTHER -> s.c.sp

set_rp(s, idx, val) ==
    CASE idx = 0 -> SET_BC(s, val)
      [] idx = 1 -> SET_DE(s, val)
      [] idx = 2 -> SET_HL(s, val)
      [] OTHER   -> [s EXCEPT !.c.sp = val]

get_rp2(s, idx) ==
    CASE idx = 0 -> BC(s) [] idx = 1 -> DE(s) [] idx = 2 -> HL(s) [] OTHER -> AF(s)

set_rp2(s, idx, val) ==
    CASE idx = 0 -> SET_BC(s, val)
      [] idx = 1 -> SET_DE(s, val)
      [] idx = 2 -> SET_HL(s, val)
      [] OTHER   -> SET_AF(s, val)

(* the index register a DD (IX) or FD (IY) prefix selects; ix is TRUE for IX *)
GetIdx(s, ix) == IF ix THEN s.c.ix ELSE s.c.iy
SetIdx(s, ix, v) == IF ix THEN [s EXCEPT !.c.ix = U16(v)] ELSE [s EXCEPT !.c.iy = U16(v)]

get_reg_idx(s, idx, ixiy) ==
    CASE idx = 0 -> s.c.b
      [] idx = 1 -> s.c.c
      [] idx = 2 -> s.c.d
      [] idx = 3 -> s.c.e
      [] idx = 4 -> Hi(ixiy)
      [] idx = 5 -> Lo(ixiy)
      [] idx = 6 -> 0
      [] OTHER   -> s.c.a

set_reg_idx(s, idx, ix, val) ==
    CASE idx = 0 -> [s EXCEPT !.c.b = val]
      [] idx = 1 -> [s EXCEPT !.c.c = val]
      [] idx = 2 -> [s EXCEPT !.c.d = val]
      [] idx = 3 -> [s EXCEPT !.c.e = val]
      [] idx = 4 -> SetIdx(s, ix, Word(val, Lo(GetIdx(s, ix))))
      [] idx = 5 -> SetIdx(s, ix, Word(Hi(GetIdx(s, ix)), val))
      [] idx = 6 -> s
      [] OTHER   -> [s EXCEPT !.c.a = val]

(* ---- z80_init ------------------------------------------------------------ *)
z80_init ==
    [a |-> 255, f |-> 255, b |-> 0, c |-> 0, d |-> 0, e |-> 0, h |-> 0, l |-> 0,
     a_ |-> 0, f_ |-> 0, b_ |-> 0, c_ |-> 0, d_ |-> 0, e_ |-> 0, h_ |-> 0, l_ |-> 0,
     ix |-> 0, iy |-> 0, sp |-> 65535, pc |-> 0, i |-> 0, r |-> 0,
     iff1 |-> 0, iff2 |-> 0, im |-> 0, halted |-> 0, ei_delay |-> 0, clocks |-> 0]

(* ---- CB prefix ----------------------------------------------------------- *)
exec_cb(s0) ==
    LET op == FETCH(s0)
        s == INC_R(AdvPC(s0, 1))
        x == X(op)
        y == Y(op)
        z == Z(op)
        clk == IF z = 6 THEN 15 ELSE 8
        val == get_reg(s, z)
    IN  CASE x = 0 -> LET ro == RotByY(s, y, val)
                      IN  SetClk(set_reg(SetF(s, ro.f), z, ro.r), clk)
          [] x = 1 -> SetClk(op_bit(s, y, val), IF z = 6 THEN 12 ELSE clk)
          [] x = 2 -> SetClk(set_reg(s, z, And(val, 255 - Pow2(y))), clk)
          [] OTHER -> SetClk(set_reg(s, z, Or(val, Pow2(y))), clk)

(* ---- DDCB / FDCB --------------------------------------------------------- *)
(* faulty variant of exec_ddfdcb: the result is not copied into r[z] *)
exec_ddfdcb_no_copy(s0, ixiy) ==
    LET d == S8(FETCH(s0))
        op == FETCH(AdvPC(s0, 1))
        s == AdvPC(s0, 2)
        addr == U16(ixiy + d)
        val == RB(s, addr)
        x == X(op)
        y == Y(op)
        Store(t, r) == SetClk(WB(t, addr, r), 23)
    IN  CASE x = 0 -> LET ro == RotByY(s, y, val) IN Store(SetF(s, ro.f), ro.r)
          [] x = 1 -> SetClk(op_bit_idx(s, y, val, Hi(addr)), 20)
          [] x = 2 -> Store(s, And(val, 255 - Pow2(y)))
          [] OTHER -> Store(s, Or(val, Pow2(y)))

exec_ddfdcb(s0, ixiy) ==
    LET d == S8(FETCH(s0))
        op == FETCH(AdvPC(s0, 1))
        s == AdvPC(s0, 2)
        addr == U16(ixiy + d)
        val == RB(s, addr)
        x == X(op)
        y == Y(op)
        z == Z(op)
        Store(t, r) == LET t1 == WB(t, addr, r)
                       IN  SetClk(IF z # 6 THEN set_reg(t1, z, r) ELSE t1, 23)
    IN  CASE x = 0 -> LET ro == RotByY(s, y, val) IN Store(SetF(s, ro.f), ro.r)
          [] x = 1 -> SetClk(op_bit_idx(s, y, val, Hi(addr)), 20)
          [] x = 2 -> Store(s, And(val, 255 - Pow2(y)))
          [] OTHER -> Store(s, Or(val, Pow2(y)))

(* ---- ED prefix ----------------------------------------------------------- *)
(* block instructions: y = 4 (I), 5 (D), 6 (IR), 7 (DR) *)
BlkDir(y) == IF y = 4 \/ y = 6 THEN 1 ELSE -1
BlkRep(y) == y >= 6

(* faulty variant of BlkEnd: a repeat costs 21 T-states but PC stays past *)
BlkEnd_no_rewind(s, again) == IF again THEN SetClk(s, 21) ELSE SetClk(s, 16)

(* repeat: PC back on the ED byte and 21 T-states, else 16 *)
BlkEnd(s, again) == IF again THEN SetClk(AdvPC(s, -2), 21) ELSE SetClk(s, 16)

(* faulty variant of blk_ld: the byte is stored one past DE *)
blk_ld_off_by_one(s, y) ==
    LET val == RB(s, HL(s))
        s1 == WB(s, U16(DE(s) + 1), val)
        s2 == SET_HL(s1, U16(HL(s1) + BlkDir(y)))
        s3 == SET_DE(s2, U16(DE(s2) + BlkDir(y)))
        s4 == SET_BC(s3, U16(BC(s3) - 1))
        n == U8(val + s4.c.a)
        f == Or(Or(And(s4.c.f, Z80_SF + Z80_ZF + Z80_CF),
                   IF BC(s4) # 0 THEN Z80_PF ELSE 0),
                Or(And(n, Z80_XF), And(n * 16, Z80_YF)))
    IN  BlkEnd(SetF(s4, f), BlkRep(y) /\ BC(s4) # 0)

(* LDI / LDD / LDIR / LDDR *)
blk_ld(s, y) ==
    LET val == RB(s, HL(s))
        s1 == WB(s, DE(s), val)
        s2 == SET_HL(s1, U16(HL(s1) + BlkDir(y)))
        s3 == SET_DE(s2, U16(DE(s2) + BlkDir(y)))
        s4 == SET_BC(s3, U16(BC(s3) - 1))
        n == U8(val + s4.c.a)
        f == Or(Or(And(s4.c.f, Z80_SF + Z80_ZF + Z80_CF),
                   IF BC(s4) # 0 THEN Z80_PF ELSE 0),
                Or(And(n, Z80_XF), And(n * 16, Z80_YF)))
    IN  BlkEnd(SetF(s4, f), BlkRep(y) /\ BC(s4) # 0)

(* faulty variant of blk_cp: the scan goes on over a matching byte *)
blk_cp_ignores_match(s, y) ==
    LET val == RB(s, HL(s))
        r == U8(s.c.a - val)
        hc == U8(And(s.c.a, 15) - And(val, 15))
        s1 == SET_HL(s, U16(HL(s) + BlkDir(y)))
        s2 == SET_BC(s1, U16(BC(s1) - 1))
        n == U8(r - (IF And(hc, Z80_HF) # 0 THEN 1 ELSE 0))
        f == Or(Or(Or(And(s2.c.f, Z80_CF),
                      And(sz53p[r], 255 - (Z80_YF + Z80_XF + Z80_PF))),
                   Or(And(hc, Z80_HF), Z80_NF)),
                Or(IF BC(s2) # 0 THEN Z80_PF ELSE 0,
                   Or(And(n, Z80_XF), And(n * 16, Z80_YF))))
    IN  BlkEnd(SetF(s2, f), BlkRep(y) /\ BC(s2) # 0)

(* CPI / CPD / CPIR / CPDR *)
blk_cp(s, y) ==
    LET val == RB(s, HL(s))
        r == U8(s.c.a - val)
        hc == U8(And(s.c.a, 15) - And(val, 15))
        s1 == SET_HL(s, U16(HL(s) + BlkDir(y)))
        s2 == SET_BC(s1, U16(BC(s1) - 1))
        n == U8(r - (IF And(hc, Z80_HF) # 0 THEN 1 ELSE 0))
        f == Or(Or(Or(And(s2.c.f, Z80_CF),
                      And(sz53p[r], 255 - (Z80_YF + Z80_XF + Z80_PF))),
                   Or(And(hc, Z80_HF), Z80_NF)),
                Or(IF BC(s2) # 0 THEN Z80_PF ELSE 0,
                   Or(And(n, Z80_XF), And(n * 16, Z80_YF))))
    IN  BlkEnd(SetF(s2, f), BlkRep(y) /\ BC(s2) # 0 /\ r # 0)

(* INI / IND / INIR / INDR *)
blk_in(s, y) ==
    LET val == io_read(s, BC(s))
        s1 == WB(io_done(s, BC(s)), HL(s), val)
        s2 == SET_HL(s1, U16(HL(s1) + BlkDir(y)))
        s3 == [alu_dec8(s2, s2.c.b) EXCEPT !.c.b = U8(s2.c.b - 1)]
        s4 == SetF(s3, Or(s3.c.f, And(val \div 64, Z80_NF)))
    IN  BlkEnd(s4, BlkRep(y) /\ s4.c.b # 0)

(* faulty variant of blk_out: OTIR and OTDR repeat while B is 0 too *)
blk_out_never_ends(s, y) ==
    LET val == RB(s, HL(s))
        s1 == [alu_dec8(s, s.c.b) EXCEPT !.c.b = U8(s.c.b - 1)]
        s2 == io_write(s1, BC(s1), val)
        s3 == SET_HL(s2, U16(HL(s2) + BlkDir(y)))
        s4 == SetF(s3, Or(s3.c.f, And(val \div 64, Z80_NF)))
    IN  BlkEnd(s4, BlkRep(y))

(* OUTI / OUTD / OTIR / OTDR *)
blk_out(s, y) ==
    LET val == RB(s, HL(s))
        s1 == [alu_dec8(s, s.c.b) EXCEPT !.c.b = U8(s.c.b - 1)]
        s2 == io_write(s1, BC(s1), val)
        s3 == SET_HL(s2, U16(HL(s2) + BlkDir(y)))
        s4 == SetF(s3, Or(s3.c.f, And(val \div 64, Z80_NF)))
    IN  BlkEnd(s4, BlkRep(y) /\ s4.c.b # 0)

(* LD A,I and LD A,R: P/V from IFF2 *)
LdAIR(s, v) ==
    LET f1 == Or(Or(And(s.c.f, Z80_CF), sz53p[v]), IF s.c.iff2 # 0 THEN Z80_PF ELSE 0)
        f2 == Or(And(f1, 255 - Z80_PF), IF s.c.iff2 # 0 THEN Z80_PF ELSE 0)
    IN  SetClk([s EXCEPT !.c.a = v, !.c.f = f2], 9)

exec_ed_x1z7(s, y) ==
    CASE y = 0 -> SetClk([s EXCEPT !.c.i = s.c.a], 9)
      [] y = 1 -> SetClk([s EXCEPT !.c.r = s.c.a], 9)
      [] y = 2 -> LdAIR(s, s.c.i)
      [] y = 3 -> LdAIR(s, s.c.r)
      [] y = 4 -> LET val == RB(s, HL(s))
                      lo_a == And(s.c.a, 15)
                      a == Or(And(s.c.a, 240), And(val, 15))
                      v2 == U8(Or(val \div 16, lo_a * 16))
                      s1 == WB([s EXCEPT !.c.a = a], HL(s), v2)
                  IN  SetClk(SetF(s1, Or(And(s1.c.f, Z80_CF), sz53p[a])), 18)
      [] y = 5 -> LET val == RB(s, HL(s))
                      lo_a == And(s.c.a, 15)
                      a == Or(And(s.c.a, 240), val \div 16)
                      v2 == U8(Or(val * 16, lo_a))
                      s1 == WB([s EXCEPT !.c.a = a], HL(s), v2)
                  IN  SetClk(SetF(s1, Or(And(s1.c.f, Z80_CF), sz53p[a])), 18)
      [] OTHER -> SetClk(s, 8)

(* RETN / RETI *)
exec_retn(s) ==
    LET s1 == [PopSP(s) EXCEPT !.c.pc = PopVal(s)]
    IN  SetClk([s1 EXCEPT !.c.iff1 = s1.c.iff2], 14)

(* IM y *)
exec_im(s, y) ==
    SetClk([s EXCEPT !.c.im = CASE y \in {0, 4, 1, 5} -> 0
                                [] y \in {2, 6} -> 1
                                [] OTHER -> 2], 8)

(* faulty variant of exec_ed: the opcodes without an arm clear the carry flag *)
exec_ed_nop_clears_carry(s0) ==
    LET op == FETCH(s0)
        s == INC_R(AdvPC(s0, 1))
        x == X(op)
        y == Y(op)
        z == Z(op)
        p == P(op)
        q == Q(op)
    IN  IF x = 1 THEN
          CASE z = 0 -> LET val == io_read(s, BC(s))
                            sr == io_done(s, BC(s))
                            s1 == IF y # 6 THEN set_reg(sr, y, val) ELSE sr
                        IN  SetClk(SetF(s1, Or(And(s1.c.f, Z80_CF), sz53p[val])), 12)
            [] z = 1 -> LET val == IF y = 6 THEN 0 ELSE get_reg(s, y)
                        IN  SetClk(io_write(s, BC(s), val), 12)
            [] z = 2 -> SetClk(IF q = 0 THEN alu_sbc16(s, get_rp(s, p))
                                         ELSE alu_adc16(s, get_rp(s, p)), 15)
            [] z = 3 -> LET addr == Fetch16(s)
                            s1 == AdvPC(s, 2)
                        IN  SetClk(IF q = 0 THEN WW(s1, addr, get_rp(s1, p))
                                             ELSE set_rp(s1, p, RW(s1, addr)), 20)
            [] z = 4 -> SetClk(alu_sub8([s EXCEPT !.c.a = 0], s.c.a), 8)
            [] z = 5 -> exec_retn(s)
            [] z = 6 -> exec_im(s, y)
            [] OTHER -> exec_ed_x1z7(s, y)
        ELSE IF x = 2 /\ y >= 4 /\ z <= 3 THEN
          CASE z = 0 -> blk_ld(s, y)
            [] z = 1 -> blk_cp(s, y)
            [] z = 2 -> blk_in(s, y)
            [] OTHER -> blk_out(s, y)
        ELSE SetClk(SetF(s, And(s.c.f, 255 - Z80_CF)), 8)

exec_ed(s0) ==
    LET op == FETCH(s0)
        s == INC_R(AdvPC(s0, 1))
        x == X(op)
        y == Y(op)
        z == Z(op)
        p == P(op)
        q == Q(op)
    IN  IF x = 1 THEN
          CASE z = 0 -> LET val == io_read(s, BC(s))
                            sr == io_done(s, BC(s))
                            s1 == IF y # 6 THEN set_reg(sr, y, val) ELSE sr
                        IN  SetClk(SetF(s1, Or(And(s1.c.f, Z80_CF), sz53p[val])), 12)
            [] z = 1 -> LET val == IF y = 6 THEN 0 ELSE get_reg(s, y)
                        IN  SetClk(io_write(s, BC(s), val), 12)
            [] z = 2 -> SetClk(IF q = 0 THEN alu_sbc16(s, get_rp(s, p))
                                         ELSE alu_adc16(s, get_rp(s, p)), 15)
            [] z = 3 -> LET addr == Fetch16(s)
                            s1 == AdvPC(s, 2)
                        IN  SetClk(IF q = 0 THEN WW(s1, addr, get_rp(s1, p))
                                             ELSE set_rp(s1, p, RW(s1, addr)), 20)
            [] z = 4 -> SetClk(alu_sub8([s EXCEPT !.c.a = 0], s.c.a), 8)
            [] z = 5 -> exec_retn(s)
            [] z = 6 -> exec_im(s, y)
            [] OTHER -> exec_ed_x1z7(s, y)
        ELSE IF x = 2 /\ y >= 4 /\ z <= 3 THEN
          CASE z = 0 -> blk_ld(s, y)
            [] z = 1 -> blk_cp(s, y)
            [] z = 2 -> blk_in(s, y)
            [] OTHER -> blk_out(s, y)
        ELSE SetClk(s, 8)

(* ---- ALU[y] A, val ------------------------------------------------------- *)
alu_by_y(s, y, val) ==
    CASE y = 0 -> alu_add8(s, val)
      [] y = 1 -> alu_adc8(s, val)
      [] y = 2 -> alu_sub8(s, val)
      [] y = 3 -> alu_sbc8(s, val)
      [] y = 4 -> alu_and(s, val)
      [] y = 5 -> alu_xor(s, val)
      [] y = 6 -> alu_or(s, val)
      [] OTHER -> alu_cp(s, val)

(* ---- DD / FD prefix ------------------------------------------------------ *)
(* faulty variant of ddfd_unprefixed: PC is not put back on the opcode *)
ddfd_unprefixed_skips(s) ==
    LET s1 == INC_R(s)
    IN  SetClk([s1 EXCEPT !.c.r = And(@, 128) + And(U8(@ - 1), 127)], 4)

(* the label unprefixed: the opcode is not affected, PC goes back on it and *)
(* the step ends after the 4 T-states of the prefix byte                    *)
ddfd_unprefixed(s) ==
    LET s1 == INC_R(AdvPC(s, -1))
    IN  SetClk([s1 EXCEPT !.c.r = And(@, 128) + And(U8(@ - 1), 127)], 4)

(* x = 0 *)
exec_ddfd_x0(s, ix, op) ==
    LET y == Y(op)
        z == Z(op)
        p == P(op)
        q == Q(op)
        ixiy == GetIdx(s, ix)
        d == S8(FETCH(s))
        addr == U16(ixiy + d)
    IN  CASE z = 0 -> ddfd_unprefixed(s)
          [] z = 1 /\ p = 2 /\ q = 0 ->
                SetClk(SetIdx(AdvPC(s, 2), ix, Fetch16(s)), 14)
          [] z = 1 /\ p = 2 /\ q = 1 ->
                (* ADD IX/IY, rp with rp = P(op), which is 2 here *)
                SetClk(SetIdx(alu_add16(s, ixiy, ixiy), ix, ixiy + ixiy), 15)
          [] z = 2 /\ p = 2 /\ q = 0 ->
                SetClk(WW(AdvPC(s, 2), Fetch16(s), ixiy), 20)
          [] z = 2 /\ p = 2 /\ q = 1 ->
                SetClk(SetIdx(AdvPC(s, 2), ix, RW(s, Fetch16(s))), 20)
          [] z = 3 /\ p = 2 ->
                SetClk(SetIdx(s, ix, IF q = 0 THEN ixiy + 1 ELSE ixiy - 1), 10)
          [] z \in {4, 5} /\ y = 4 ->
                LET val == Hi(ixiy)
                    f == IF z = 4 THEN Inc8F(s.c.f, val) ELSE Dec8F(s.c.f, val)
                    r == IF z = 4 THEN U8(val + 1) ELSE U8(val - 1)
                IN  SetClk(SetIdx(SetF(s, f), ix, Word(r, Lo(ixiy))), 8)
          [] z \in {4, 5} /\ y = 5 ->
                LET val == Lo(ixiy)
                    f == IF z = 4 THEN Inc8F(s.c.f, val) ELSE Dec8F(s.c.f, val)
                    r == IF z = 4 THEN U8(val + 1) ELSE U8(val - 1)
                IN  SetClk(SetIdx(SetF(s, f), ix, Word(Hi(ixiy), r)), 8)
          [] z \in {4, 5} /\ y = 6 ->
                LET s1 == AdvPC(s, 1)
                    val == RB(s1, addr)
                    f == IF z = 4 THEN Inc8F(s.c.f, val) ELSE Dec8F(s.c.f, val)
                    r == IF z = 4 THEN U8(val + 1) ELSE U8(val - 1)
                IN  SetClk(WB(SetF(s1, f), addr, r), 23)
          [] z = 6 /\ y = 4 ->
                SetClk(SetIdx(AdvPC(s, 1), ix, Word(FETCH(s), Lo(ixiy))), 11)
          [] z = 6 /\ y = 5 ->
                SetClk(SetIdx(AdvPC(s, 1), ix, Word(Hi(ixiy), FETCH(s))), 11)
          [] z = 6 /\ y = 6 ->
                LET n == FETCH(AdvPC(s, 1))
                IN  SetClk(WB(AdvPC(s, 2), addr, n), 19)
          [] OTHER -> ddfd_unprefixed(s)

(* x = 1: LD r, r' *)
exec_ddfd_x1(s, ix, op) ==
    LET y == Y(op)
        z == Z(op)
        ixiy == GetIdx(s, ix)
        d == S8(FETCH(s))
        s1 == AdvPC(s, 1)
    IN  IF y = 6 /\ z = 6 THEN ddfd_unprefixed(s)
        ELSE IF y = 6 THEN SetClk(WB(s1, ixiy + d, get_reg(s1, z)), 19)
        ELSE IF z = 6 THEN SetClk(set_reg(s1, y, RB(s1, ixiy + d)), 19)
        ELSE SetClk(set_reg_idx(s, y, ix, get_reg_idx(s, z, ixiy)), 8)

(* x = 2: ALU A, r *)
exec_ddfd_x2(s, ix, op) ==
    LET y == Y(op)
        z == Z(op)
        ixiy == GetIdx(s, ix)
        d == S8(FETCH(s))
    IN  IF z = 6
        THEN LET s1 == AdvPC(s, 1)
             IN  SetClk(alu_by_y(s1, y, RB(s1, ixiy + d)), 19)
        ELSE SetClk(alu_by_y(s, y, get_reg_idx(s, z, ixiy)), 8)

(* x = 3 *)
exec_ddfd_x3(s, ix, op) ==
    LET z == Z(op)
        p == P(op)
        q == Q(op)
        ixiy == GetIdx(s, ix)
    IN  IF z = 1 THEN
            IF q = 0 /\ p = 2 THEN SetClk(SetIdx(PopSP(s), ix, PopVal(s)), 14)
            ELSE ddfd_unprefixed(s)
        ELSE IF z = 3 THEN
            IF op = 227
            THEN LET val == RW(s, s.c.sp)
                 IN  SetClk(SetIdx(WW(s, s.c.sp, ixiy), ix, val), 23)
            ELSE ddfd_unprefixed(s)
        ELSE IF z = 5 THEN
            IF q = 0 /\ p = 2 THEN SetClk(PUSH(s, ixiy), 15)
            ELSE ddfd_unprefixed(s)
        ELSE IF z = 7 THEN ddfd_unprefixed(s)
        (* default: z is 0, 2, 4 or 6 here, while E9 and F9 have z = 1 *)
        ELSE IF op = 233 THEN SetClk([s EXCEPT !.c.pc = ixiy], 8)
        ELSE IF op = 249 THEN SetClk([s EXCEPT !.c.sp = ixiy], 10)
        ELSE ddfd_unprefixed(s)

(* faulty variant of exec_ddfd: a second prefix is swallowed with the first *)
exec_ddfd_chain_swallows(s0, ix) ==
    LET op == FETCH(s0)
        s == INC_R(AdvPC(s0, 1))
    IN  IF op = 203 THEN exec_ddfdcb(s, GetIdx(s, ix))
        ELSE IF op = 221 \/ op = 253 THEN SetClk(s, 4)
        ELSE IF op = 237 THEN LET t == exec_ed(s) IN SetClk(t, t.clk + 4)
        ELSE CASE X(op) = 0 -> exec_ddfd_x0(s, ix, op)
               [] X(op) = 1 -> exec_ddfd_x1(s, ix, op)
               [] X(op) = 2 -> exec_ddfd_x2(s, ix, op)
               [] OTHER     -> exec_ddfd_x3(s, ix, op)

exec_ddfd(s0, ix) ==
    LET op == FETCH(s0)
        s == INC_R(AdvPC(s0, 1))
    IN  IF op = 203 THEN exec_ddfdcb(s, GetIdx(s, ix))
        ELSE IF op = 221 \/ op = 253 THEN SetClk(AdvPC(s, -1), 4)
        ELSE IF op = 237 THEN LET t == exec_ed(s) IN SetClk(t, t.clk + 4)
        ELSE CASE X(op) = 0 -> exec_ddfd_x0(s, ix, op)
               [] X(op) = 1 -> exec_ddfd_x1(s, ix, op)
               [] X(op) = 2 -> exec_ddfd_x2(s, ix, op)
               [] OTHER     -> exec_ddfd_x3(s, ix, op)

(* ---- main decoder -------------------------------------------------------- *)
(* accumulator rotates: preserve S, Z, P/V; F3/F5 from the new A; C = c *)
RotAF(s, a, c) ==
    [s EXCEPT !.c.a = a,
              !.c.f = Or(Or(And(s.c.f, Z80_SF + Z80_ZF + Z80_PF),
                            And(a, Z80_YF + Z80_XF)), c)]

exec_daa(s) ==
    LET a == s.c.a
        f == s.c.f
        lowfix == And(f, Z80_HF) # 0 \/ And(a, 15) > 9
        highfix == And(f, Z80_CF) # 0 \/ a > 153
        correction == (IF lowfix THEN 6 ELSE 0) + (IF highfix THEN 96 ELSE 0)
        carry == IF highfix THEN Z80_CF ELSE 0
        na == IF And(f, Z80_NF) # 0 THEN U8(a - correction) ELSE U8(a + correction)
        nf == Or(Or(sz53p[na], And(f, Z80_NF)), Or(carry, And(Xor(a, na), Z80_HF)))
    IN  [s EXCEPT !.c.a = na, !.c.f = nf]

(* x = 0, z = 0: NOP, EX AF,AF', DJNZ, JR, JR cc *)
step_x0z0(s, y) ==
    LET d == S8(FETCH(s))
        s1 == AdvPC(s, 1)
    IN  CASE y = 0 -> SetClk(s, 4)
          [] y = 1 -> SetClk([s EXCEPT !.c.a = s.c.a_, !.c.a_ = s.c.a,
                                       !.c.f = s.c.f_, !.c.f_ = s.c.f], 4)
          [] y = 2 -> LET s2 == [s1 EXCEPT !.c.b = U8(@ - 1)]
                      IN  IF s2.c.b # 0 THEN SetClk(AdvPC(s2, d), 13)
                          ELSE SetClk(s2, 8)
          [] y = 3 -> SetClk(AdvPC(s1, d), 12)
          [] OTHER -> IF eval_cc(s1, y - 4) THEN SetClk(AdvPC(s1, d), 12)
                      ELSE SetClk(s1, 7)

(* x = 0, z = 2: indirect loads *)
step_x0z2(s, y) ==
    LET addr == Fetch16(s)
        s2 == AdvPC(s, 2)
    IN  CASE y = 0 -> SetClk(WB(s, BC(s), s.c.a), 7)
          [] y = 1 -> SetClk([s EXCEPT !.c.a = RB(s, BC(s))], 7)
          [] y = 2 -> SetClk(WB(s, DE(s), s.c.a), 7)
          [] y = 3 -> SetClk([s EXCEPT !.c.a = RB(s, DE(s))], 7)
          [] y = 4 -> SetClk(WW(s2, addr, HL(s2)), 16)
          [] y = 5 -> SetClk(SET_HL(s2, RW(s2, addr)), 16)
          [] y = 6 -> SetClk(WB(s2, addr, s2.c.a), 13)
          [] OTHER -> SetClk([s2 EXCEPT !.c.a = RB(s2, addr)], 13)

(* x = 0, z = 7: RLCA, RRCA, RLA, RRA, DAA, CPL, SCF, CCF *)
step_x0z7(s, y) ==
    LET a == s.c.a
        f == s.c.f
        keep == And(f, Z80_SF + Z80_ZF + Z80_PF)
    IN  SetClk(
        CASE y = 0 -> RotAF(s, Or(U8(a * 2), a \div 128), a \div 128)
          [] y = 1 -> RotAF(s, Or(a \div 2, (a % 2) * 128), a % 2)
          [] y = 2 -> RotAF(s, Or(U8(a * 2), And(f, Z80_CF)), a \div 128)
          [] y = 3 -> RotAF(s, Or(a \div 2, And(f, Z80_CF) * 128), a % 2)
          [] y = 4 -> exec_daa(s)
          [] y = 5 -> [s EXCEPT !.c.a = Not8(a),
                                !.c.f = Or(Or(And(f, Z80_SF + Z80_ZF + Z80_PF + Z80_CF),
                                              And(Not8(a), Z80_YF + Z80_XF)),
                                           Z80_HF + Z80_NF)]
          [] y = 6 -> SetF(s, Or(Or(keep, And(a, Z80_YF + Z80_XF)), Z80_CF))
          [] OTHER -> SetF(s, Or(Or(keep, And(a, Z80_YF + Z80_XF)),
                                 Or(IF And(f, Z80_CF) # 0 THEN Z80_HF ELSE 0,
                                    Xor(And(f, Z80_CF), Z80_CF)))), 4)

step_x0(s, op) ==
    LET y == Y(op)
        z == Z(op)
        p == P(op)
        q == Q(op)
    IN  CASE z = 0 -> step_x0z0(s, y)
          [] z = 1 -> IF q = 0 THEN SetClk(set_rp(AdvPC(s, 2), p, Fetch16(s)), 10)
                      ELSE LET hl == HL(s)
                               val == get_rp(s, p)
                           IN  SetClk(SET_HL(alu_add16(s, hl, val), U16(hl + val)), 11)
          [] z = 2 -> step_x0z2(s, y)
          [] z = 3 -> SetClk(set_rp(s, p, U16(get_rp(s, p) + (IF q = 0 THEN 1 ELSE -1))), 6)
          [] z = 4 -> IF y = 6
                      THEN LET addr == HL(s)
                               val == RB(s, addr)
                           IN  SetClk(WB(alu_inc8(s, val), addr, U8(val + 1)), 11)
                      ELSE LET val == get_reg(s, y)
                           IN  SetClk(set_reg(alu_inc8(s, val), y, U8(val + 1)), 4)
          [] z = 5 -> IF y = 6
                      THEN LET addr == HL(s)
                               val == RB(s, addr)
                           IN  SetClk(WB(alu_dec8(s, val), addr, U8(val - 1)), 11)
                      ELSE LET val == get_reg(s, y)
                           IN  SetClk(set_reg(alu_dec8(s, val), y, U8(val - 1)), 4)
          [] z = 6 -> LET n == FETCH(s)
                          s1 == AdvPC(s, 1)
                      IN  IF y = 6 THEN SetClk(WB(s1, HL(s1), n), 10)
                          ELSE SetClk(set_reg(s1, y, n), 7)
          [] OTHER -> step_x0z7(s, y)

(* faulty variant of step_x1: HALT leaves PC past the opcode *)
step_x1_pc_past(s, op) ==
    LET y == Y(op)
        z == Z(op)
    IN  IF y = 6 /\ z = 6
        THEN SetClk([s EXCEPT !.c.halted = 1], 4)
        ELSE SetClk(set_reg(s, y, get_reg(s, z)), IF y = 6 \/ z = 6 THEN 7 ELSE 4)

(* x = 1: HALT and LD r[y], r[z] *)
step_x1(s, op) ==
    LET y == Y(op)
        z == Z(op)
    IN  IF y = 6 /\ z = 6
        THEN SetClk(AdvPC([s EXCEPT !.c.halted = 1], -1), 4)
        ELSE SetClk(set_reg(s, y, get_reg(s, z)), IF y = 6 \/ z = 6 THEN 7 ELSE 4)

(* x = 2: ALU[y] A, r[z] *)
step_x2(s, op) ==
    SetClk(alu_by_y(s, Y(op), get_reg(s, Z(op))), IF Z(op) = 6 THEN 7 ELSE 4)

(* EI: interrupts are enabled after the next instruction *)
exec_ei(s) == SetClk([s EXCEPT !.c.ei_delay = 1], 4)

exec_di(s) == SetClk([s EXCEPT !.c.iff1 = 0, !.c.iff2 = 0], 4)

exec_ret(s) == [PopSP(s) EXCEPT !.c.pc = PopVal(s)]

exec_call(s, addr) == [PUSH(s, s.c.pc) EXCEPT !.c.pc = addr]

(* x = 3, z = 1: POP rp2, RET, EXX, JP (HL), LD SP,HL *)
step_x3z1(s, p, q) ==
    IF q = 0 THEN SetClk(set_rp2(PopSP(s), p, PopVal(s)), 10)
    ELSE CASE p = 0 -> SetClk(exec_ret(s), 10)
           [] p = 1 -> SetClk([s EXCEPT !.c.b = s.c.b_, !.c.b_ = s.c.b,
                                        !.c.c = s.c.c_, !.c.c_ = s.c.c,
                                        !.c.d = s.c.d_, !.c.d_ = s.c.d,
                                        !.c.e = s.c.e_, !.c.e_ = s.c.e,
                                        !.c.h = s.c.h_, !.c.h_ = s.c.h,
                                        !.c.l = s.c.l_, !.c.l_ = s.c.l], 4)
           [] p = 2 -> SetClk([s EXCEPT !.c.pc = HL(s)], 4)
           [] OTHER -> SetClk([s EXCEPT !.c.sp = HL(s)], 6)

(* x = 3, z = 3: JP nn, OUT (n),A, IN A,(n), EX (SP),HL, EX DE,HL, DI, EI *)
step_x3z3(s, y) ==
    LET port == FETCH(s)
        s1 == AdvPC(s, 1)
    IN  CASE y = 0 -> SetClk([s EXCEPT !.c.pc = Fetch16(s)], 10)
          [] y = 1 -> SetClk(s, 0)
          [] y = 2 -> SetClk(io_write(s1, Word(s1.c.a, port), s1.c.a), 11)
          [] y = 3 -> SetClk([io_done(s1, Word(s1.c.a, port))
                                 EXCEPT !.c.a = io_read(s1, Word(s1.c.a, port))], 11)
          [] y = 4 -> LET val == RW(s, s.c.sp)
                      IN  SetClk(SET_HL(WW(s, s.c.sp, HL(s)), val), 19)
          [] y = 5 -> SetClk([s EXCEPT !.c.d = s.c.h, !.c.h = s.c.d,
                                       !.c.e = s.c.l, !.c.l = s.c.e], 4)
          [] y = 6 -> exec_di(s)
          [] OTHER -> exec_ei(s)

step_x3(s, op) ==
    LET y == Y(op)
        z == Z(op)
        p == P(op)
        q == Q(op)
        addr == Fetch16(s)
        s2 == AdvPC(s, 2)
    IN  CASE z = 0 -> IF eval_cc(s, y) THEN SetClk(exec_ret(s), 11) ELSE SetClk(s, 5)
          [] z = 1 -> step_x3z1(s, p, q)
          [] z = 2 -> SetClk(IF eval_cc(s2, y) THEN [s2 EXCEPT !.c.pc = addr] ELSE s2, 10)
          [] z = 3 -> step_x3z3(s, y)
          [] z = 4 -> IF eval_cc(s2, y) THEN SetClk(exec_call(s2, addr), 17)
                      ELSE SetClk(s2, 10)
          [] z = 5 -> IF q = 0 THEN SetClk(PUSH(s, get_rp2(s, p)), 11)
                      ELSE IF p = 0 THEN SetClk(exec_call(s2, addr), 17)
                      ELSE SetClk(s, 0)
          [] z = 6 -> SetClk(alu_by_y(AdvPC(s, 1), y, FETCH(s)), 7)
          [] OTHER -> SetClk(exec_call(s, y * 8), 11)

(* the EI delay at the head of z80_step *)
step_ei_delay(s) ==
    IF s.c.ei_delay # 0
    THEN LET s1 == [s EXCEPT !.c.ei_delay = U8(@ - 1)]
         IN  IF s1.c.ei_delay = 0 THEN [s1 EXCEPT !.c.iff1 = 1, !.c.iff2 = 1] ELSE s1
    ELSE s

(* the HALT quantum: INC_R(); cpu->clocks += 4; return 4 *)
step_halted(s) == [INC_R(s) EXCEPT !.c.clocks = @ + 4, !.clk = 4]

(* faulty variant of AddClocks: the T-states are returned but not added *)
AddClocks_dropped(s) == s

(* cpu->clocks += clk; return clk *)
AddClocks(s) == [s EXCEPT !.c.clocks = @ + s.clk]

step_unprefixed(s, op) ==
    CASE X(op) = 0 -> step_x0(s, op)
      [] X(op) = 1 -> step_x1(s, op)
      [] X(op) = 2 -> step_x2(s, op)
      [] OTHER     -> step_x3(s, op)

z80_step(s0) ==
    LET s1 == step_ei_delay(SetClk(s0, 0))
    IN  IF s1.c.halted # 0 THEN step_halted(s1)
        ELSE LET op == FETCH(s1)
                 s == INC_R(AdvPC(s1, 1))
             IN  IF op = 203 THEN AddClocks(exec_cb(s))
                 ELSE IF op = 237 THEN AddClocks(exec_ed(s))
                 ELSE IF op = 221 THEN AddClocks(exec_ddfd(s, TRUE))
                 ELSE IF op = 253 THEN AddClocks(exec_ddfd(s, FALSE))
                 ELSE AddClocks(step_unprefixed(s, op))

(* ---- interrupts ---------------------------------------------------------- *)
(* faulty variant of Accept: the vector is taken without pushing PC *)
Accept_no_push(s, vector, t) ==
    [s EXCEPT !.c.pc = vector, !.c.clocks = @ + t]

(* PUSH(cpu->pc); cpu->pc = vector; cpu->clocks += t *)
Accept(s, vector, t) ==
    [PUSH(s, s.c.pc) EXCEPT !.c.pc = vector, !.c.clocks = @ + t]

(* faulty variant of irq_enter: the CPU stays halted *)
irq_enter_stays_halted(s0) ==
    INC_R([s0 EXCEPT !.c.iff1 = 0, !.c.iff2 = 0])

(* cpu->halted = 0; cpu->iff1 = cpu->iff2 = 0; INC_R() *)
irq_enter(s0) ==
    INC_R([s0 EXCEPT !.c.halted = 0, !.c.iff1 = 0, !.c.iff2 = 0])

(* faulty variant of z80_interrupt: IM 2 uses all eight bits of the data byte *)
z80_interrupt_odd_vector(s0, data) ==
    IF s0.c.iff1 = 0 THEN s0
    ELSE LET s == irq_enter(s0)
         IN  CASE s.c.im = 0 ->
                    IF data = 255 THEN Accept(s, 56, 13)
                    ELSE IF And(data, 199) = 199 THEN Accept(s, And(data, 56), 13)
                    ELSE s
               [] s.c.im = 1 -> Accept(s, 56, 13)
               [] s.c.im = 2 ->
                    LET s1 == PUSH(s, s.c.pc)
                        addr == Word(s1.c.i, data)
                    IN  [s1 EXCEPT !.c.pc = RW(s1, addr), !.c.clocks = @ + 19]
               [] OTHER -> s

z80_interrupt(s0, data) ==
    IF s0.c.iff1 = 0 THEN s0
    ELSE LET s == irq_enter(s0)
         IN  CASE s.c.im = 0 ->
                    IF data = 255 THEN Accept(s, 56, 13)
                    ELSE IF And(data, 199) = 199 THEN Accept(s, And(data, 56), 13)
                    ELSE s
               [] s.c.im = 1 -> Accept(s, 56, 13)
               [] s.c.im = 2 ->
                    LET s1 == PUSH(s, s.c.pc)
                        addr == Word(s1.c.i, And(data, 254))
                    IN  [s1 EXCEPT !.c.pc = RW(s1, addr), !.c.clocks = @ + 19]
               [] OTHER -> s

(* faulty variant of z80_nmi: IFF1 is cleared before it is copied into IFF2 *)
z80_nmi_copy_late(s0) ==
    LET s == INC_R([s0 EXCEPT !.c.halted = 0, !.c.iff2 = 0,
                              !.c.iff1 = 0, !.c.ei_delay = 0])
    IN  Accept(s, 102, 11)

z80_nmi(s0) ==
    LET s == INC_R([s0 EXCEPT !.c.halted = 0, !.c.iff2 = s0.c.iff1,
                              !.c.iff1 = 0, !.c.ei_delay = 0])
    IN  Accept(s, 102, 11)

(* ---- the system: one CPU, its host memory, and the calls of the host ----- *)
(* bounds of the model *)
MaxCalls == 4
HistLen == 2

(* opcodes used to seed memory *)
OP_RET == 201
OP_HALT == 118
OP_EI == 251
OP_DI == 243
OP_ED == 237
OP_RETN == 69
OP_LD_R_A == 79

(* interrupt service routines the host memory holds: RET at 0038h, RETN at 0066h *)
Handlers == (56 :> OP_RET) @@ (102 :> OP_ED) @@ (103 :> OP_RETN)

(* the IM 2 vector table the host memory holds at page I = 80h:            *)
(* entry 00h -> 5000h, entry CEh -> 1234h, entry FEh -> 4321h              *)
VectorTable ==
    (32769 :> 80) @@ (32974 :> 52) @@ (32975 :> 18) @@ (33022 :> 33) @@ (33023 :> 67)

(* programs loaded at address 0 *)
Programs ==
    { <<251, 0, 118>>,                        (* EI; NOP; HALT *)
      <<251, 251, 243, 0>>,                   (* EI; EI; DI; NOP *)
      <<118>>,                                (* HALT *)
      <<251, 237, 69>>,                       (* EI; RETN *)
      <<237, 79, 237, 95, 118>>,              (* LD R,A; LD A,R; HALT *)
      <<203, 0, 237, 68, 221, 33, 52, 18>>,   (* RLC B; NEG; LD IX,1234h *)
      <<221, 203, 1, 6, 253, 203, 2, 198>>,   (* RLC (IX+1); SET 0,(IY+2) *)
      <<221, 0, 221, 253, 33, 1, 2>>,         (* DD NOP; DD FD LD IY,0201h *)
      <<253, 118>>,                           (* FD HALT *)
      <<221, 237, 79, 243, 251, 201>> }       (* DD LD R,A; DI; EI; RET *)

(* what the host sets after z80_init: the flip-flops, the mode, I and SP *)
Seeds ==
    { [iff1 |-> 0, iff2 |-> 0, im |-> 0, i |-> 0, sp |-> 65535],
      [iff1 |-> 1, iff2 |-> 1, im |-> 1, i |-> 0, sp |-> 65534],
      [iff1 |-> 1, iff2 |-> 1, im |-> 0, i |-> 0, sp |-> 65534],
      [iff1 |-> 1, iff2 |-> 1, im |-> 2, i |-> 128, sp |-> 65534],
      [iff1 |-> 0, iff2 |-> 1, im |-> 1, i |-> 0, sp |-> 1] }

(* data bytes a device puts on the bus, and bytes a port returns *)
BusData == {0, 207, 255}
PortData == {0, 128}

LoadAt(m, base, prog) ==
    [x \in (DOMAIN m) \cup {base + k - 1 : k \in {j \in 1..Len(prog) : prog[j] # 0}} |->
        IF x >= base /\ x < base + Len(prog) THEN prog[x - base + 1] ELSE m[x]]

(* the statics of zxs.c; under the test harness they are never used *)
TestHost ==
    [sys |-> "test", rom_size |-> 0, acia_control |-> 0, acia_rx_data |-> 0,
     acia_rx_full |-> 0, cycles_until_poll |-> 0, stdin |-> <<>>,
     console |-> <<>>, exited |-> FALSE]

Mach(inb) ==
    [c |-> cpu, mem |-> mem, out |-> out, inb |-> inb, host |-> host, clk |-> 0]

(* the record of a call: what was called, with what (the data byte of an    *)
(* interrupt, the byte the ports return during a step), and the state       *)
(* before it                                                                *)
Call(op, data) ==
    [op |-> op, data |-> data, c |-> cpu, mem |-> mem, out |-> out, host |-> host]
Push(hs, h) == IF Len(hs) < HistLen THEN <<h>> \o hs
               ELSE <<h>> \o SubSeq(hs, 1, HistLen - 1)
Remember(h) == Push(hist, h)

Init ==
    \E prog \in Programs, seed \in Seeds :
        /\ cpu = [z80_init EXCEPT !.iff1 = seed.iff1, !.iff2 = seed.iff2,
                                  !.im = seed.im, !.i = seed.i, !.sp = seed.sp]
        /\ mem = LoadAt(Handlers @@ VectorTable, 0, prog)
        /\ out = <<>>
        /\ ret = 0
        /\ hist = <<>>
        /\ calls = 0
        /\ host = TestHost

Step ==
    /\ calls < MaxCalls
    /\ \E inb \in PortData :
         LET t == z80_step(Mach(inb))
         IN  /\ cpu' = t.c
             /\ mem' = t.mem
             /\ out' = t.out
             /\ ret' = t.clk
             /\ hist' = Remember(Call("step", inb))
             /\ host' = t.host
    /\ calls' = calls + 1

Interrupt ==
    /\ calls < MaxCalls
    /\ \E data \in BusData :
         LET t == z80_interrupt(Mach(0), data)
         IN  /\ cpu' = t.c
             /\ mem' = t.mem
             /\ hist' = Remember(Call("interrupt", data))
    /\ calls' = calls + 1
    /\ UNCHANGED <<out, ret, host>>

Nmi ==
    /\ calls < MaxCalls
    /\ LET t == z80_nmi(Mach(0))
       IN  /\ cpu' = t.c
           /\ mem' = t.mem
    /\ hist' = Remember(Call("nmi", 0))
    /\ calls' = calls + 1
    /\ UNCHANGED <<out, ret, host>>

Next == Step \/ Interrupt \/ Nmi

Spec == Init /\ [][Next]_vars

(* ---- single instructions from seeded registers ---------------------------- *)
(* the opcodes that name H, L, HL or (HL) as an operand *)
RefsHL(op) ==
    LET x == X(op)
        y == Y(op)
        z == Z(op)
        p == P(op)
        q == Q(op)
    IN  CASE x = 0 -> \/ z = 1 /\ (q = 1 \/ p = 2)
                      \/ z \in {2, 3} /\ p = 2
                      \/ z \in {4, 5, 6} /\ y \in {4, 5, 6}
          [] x = 1 -> op # OP_HALT /\ (y \in {4, 5, 6} \/ z \in {4, 5, 6})
          [] x = 2 -> z \in {4, 5, 6}
          [] OTHER -> op \in {225, 227, 229, 233, 235, 249}

PrefixBytes == {203, 221, 237, 253}
IndexPrefixes == {221, 253}
NoHLOps == {op \in 0..255 : op \notin PrefixBytes /\ ~RefsHL(op)}

(* register contents the host sets before it steps *)
ExecRegs ==
    { [a |-> 90,  f |-> 0,   b |-> 32,  c |-> 0,   d |-> 3,   e |-> 5,
       h |-> 64,  l |-> 0,   ix |-> 4096,  iy |-> 24576, sp |-> 65520],
      [a |-> 128, f |-> 255, b |-> 0,   c |-> 32,  d |-> 255, e |-> 255,
       h |-> 18,  l |-> 52,  ix |-> 65520, iy |-> 32769, sp |-> 36864],
      [a |-> 0,   f |-> 69,  b |-> 1,   c |-> 0,   d |-> 0,   e |-> 1,
       h |-> 255, l |-> 255, ix |-> 255,   iy |-> 65280, sp |-> 40960] }

(* the displacements of the indexed programs: +3 and -2 *)
Disps == {3, 254}

(* bytes the host memory holds at (IX+d) and (IY+d) for those registers *)
DataMem ==
    (4099 :> 129) @@ (4094 :> 126) @@ (24579 :> 255) @@ (24574 :> 1) @@
    (65523 :> 85) @@ (65518 :> 170) @@ (32772 :> 128) @@ (32767 :> 15) @@
    (258 :> 240) @@ (253 :> 51) @@ (65283 :> 7) @@ (65278 :> 192)

ExecPrograms ==
    (* a DD or FD prefix before an opcode that does not name H, L or (HL) *)
    { <<pre, op, 5, 64>> : pre \in IndexPrefixes, op \in NoHLOps }
    (* JP (IX), LD SP,IX and ADD IX,rp *)
    \cup { <<pre, op>> : pre \in IndexPrefixes, op \in {233, 249, 9, 25, 41, 57} }
    (* chains of prefixes, one of them after EI *)
    \cup { <<221, 253, 33, 1, 2>>, <<253, 221, 33, 1, 2>>, <<221, 221, 33, 1, 2>>,
           <<253, 253, 221, 35>>, <<221, 253, 126, 3>>, <<253, 221, 229>>,
           <<251, 221, 253, 33, 1, 2>> }
    (* the DDCB and FDCB group *)
    \cup { <<pre, 203, d, op>> : pre \in IndexPrefixes, d \in Disps, op \in 0..255 }
    (* every opcode behind ED, the unassigned ones included *)
    \cup { <<OP_ED, op>> : op \in 0..255 }
    (* an unassigned ED opcode right after EI *)
    \cup { <<OP_EI, OP_ED, 0>> }
    (* every opcode without a prefix, and every opcode behind CB *)
    \cup { <<op, 5, 64>> : op \in (0..255) \ PrefixBytes }
    \cup { <<203, op>> : op \in 0..255 }

InitExec ==
    \E prog \in ExecPrograms, regs \in ExecRegs :
        /\ cpu = [z80_init EXCEPT !.a = regs.a, !.f = regs.f, !.b = regs.b,
                                  !.c = regs.c, !.d = regs.d, !.e = regs.e,
                                  !.h = regs.h, !.l = regs.l, !.ix = regs.ix,
                                  !.iy = regs.iy, !.sp = regs.sp]
        /\ mem = LoadAt(DataMem, 0, prog)
        /\ out = <<>>
        /\ ret = 0
        /\ hist = <<>>
        /\ calls = 0
        /\ host = TestHost

SpecExec == InitExec /\ [][Step]_vars

(* ---- block instructions run to their end ---------------------------------- *)
(* the most z80_step calls of one run *)
MaxRun == 65542
(* the longest range the copy and scan claims are stated for *)
MaxScan == 5

(* LD A,a; LD HL,hl; LD DE,de; LD BC,bc; the ED-prefixed block opcode; HALT *)
BlockProgram(run) ==
    <<62, run.a, 33, Lo(run.hl), Hi(run.hl), 17, Lo(run.de), Hi(run.de),
      1, Lo(run.bc), Hi(run.bc), OP_ED, run.op, OP_HALT>>

(* the bytes 11h 22h 33h 44h at 1000h..1003h *)
SourceMem == (4096 :> 17) @@ (4097 :> 34) @@ (4098 :> 51) @@ (4099 :> 68)

BlockRuns ==
    (* LDIR and LDDR into a free range, 1 to 4 bytes *)
    { [a |-> 0, hl |-> 4096, de |-> 8192, bc |-> n, op |-> 176] : n \in 1..4 }
    \cup { [a |-> 0, hl |-> 4099, de |-> 8195, bc |-> n, op |-> 184] : n \in {1, 3} }
    (* LDIR onto its own source, onto its own opcode, and 65536 times in place *)
    \cup { [a |-> 0, hl |-> 4096, de |-> 4097, bc |-> 3, op |-> 176],
           [a |-> 0, hl |-> 13, de |-> 11, bc |-> 2, op |-> 176],
           [a |-> 0, hl |-> 8192, de |-> 8192, bc |-> 0, op |-> 176] }
    (* LDI, CPI *)
    \cup { [a |-> v, hl |-> 4096, de |-> 8192, bc |-> n, op |-> op] :
              v \in {17, 51}, n \in {0, 1, 5}, op \in {160, 161} }
    (* CPIR and CPDR: a match in the middle, at either end, and none *)
    \cup { [a |-> v, hl |-> 4096, de |-> 0, bc |-> n, op |-> 177] :
              v \in {17, 51, 68, 153}, n \in 1..5 }
    \cup { [a |-> 34, hl |-> 4099, de |-> 0, bc |-> 4, op |-> 185],
           [a |-> 153, hl |-> 4099, de |-> 0, bc |-> 2, op |-> 185] }
    (* CPIR from BC = 0: the scan goes through all 65536 addresses and ends *)
    (* on the operand of LD A,99h                                           *)
    \cup { [a |-> 153, hl |-> 2, de |-> 0, bc |-> 0, op |-> 177] }
    (* INIR, INDR, OTIR, OTDR with B = 1, 2, 3 and B = 0 (256 transfers) *)
    \cup { [a |-> 0, hl |-> 4098, de |-> 0, bc |-> b * 256 + 16, op |-> op] :
              b \in 0..3, op \in {178, 186, 179, 187} }

(* the byte the port returns during these runs *)
BlockPortData == {128}

InitBlock ==
    \E run \in BlockRuns :
        /\ cpu = z80_init
        /\ mem = LoadAt(SourceMem, 0, BlockProgram(run))
        /\ out = <<>>
        /\ ret = 0
        /\ hist = <<>>
        /\ calls = 0
        /\ host = TestHost

(* the host steps the CPU until it halts *)
Run ==
    /\ cpu.halted = 0
    /\ calls < MaxRun
    /\ \E inb \in BlockPortData :
         LET t == z80_step(Mach(inb))
         IN  /\ cpu' = t.c
             /\ mem' = t.mem
             /\ out' = t.out
             /\ ret' = t.clk
             /\ hist' = Remember(Call("step", inb))
             /\ host' = t.host
    /\ calls' = calls + 1

SpecBlock == InitBlock /\ [][Run]_vars

(* ---- compare and stack instructions over whole operand ranges ------------- *)
(* CP n for every A and every operand, followed by HALT *)
OP_CP_N == 254
CpSetups ==
    { [prog |-> <<OP_CP_N, v, OP_HALT>>, a |-> a, f |-> 0, bc |-> 0, de |-> 0,
       hl |-> 0, ix |-> 0, iy |-> 0, sp |-> 65535] : a \in 0..255, v \in 0..255 }

(* PUSH rp; POP rp; HALT for BC, DE, HL, AF, IX and IY *)
StackPrograms ==
    { <<197, 193, OP_HALT>>, <<213, 209, OP_HALT>>, <<229, 225, OP_HALT>>,
      <<245, 241, OP_HALT>>, <<221, 229, 221, 225, OP_HALT>>,
      <<253, 229, 253, 225, OP_HALT>> }
(* stack pointers: at both ends of memory, inside the program, elsewhere *)
StackPointers == {0, 1, 2, 3, 4, 5, 6, 256, 32768, 65534, 65535}
StackSetups ==
    { [prog |-> prog, a |-> 171, f |-> 205, bc |-> 4660, de |-> 22136,
       hl |-> 39612, ix |-> 57005, iy |-> 48879, sp |-> sp] :
          prog \in StackPrograms, sp \in StackPointers }
    \cup
    { [prog |-> prog, a |-> 0, f |-> 255, bc |-> 255, de |-> 65280,
       hl |-> 1, ix |-> 32768, iy |-> 193, sp |-> sp] :
          prog \in StackPrograms, sp \in StackPointers }

OpSetups == CpSetups \cup StackSetups

InitOps ==
    \E setup \in OpSetups :
        /\ cpu = [z80_init EXCEPT !.a = setup.a, !.f = setup.f,
                                  !.b = Hi(setup.bc), !.c = Lo(setup.bc),
                                  !.d = Hi(setup.de), !.e = Lo(setup.de),
                                  !.h = Hi(setup.hl), !.l = Lo(setup.hl),
                                  !.ix = setup.ix, !.iy = setup.iy, !.sp = setup.sp]
        /\ mem = LoadAt(<<>>, 0, setup.prog)
        /\ out = <<>>
        /\ ret = 0
        /\ hist = <<>>
        /\ calls = 0
        /\ host = TestHost

(* the most z80_step calls of one of these programs *)
MaxOps == 3

(* the host steps the CPU through the program *)
RunOps ==
    /\ cpu.halted = 0
    /\ calls < MaxOps
    /\ \E inb \in BlockPortData :
         LET t == z80_step(Mach(inb))
         IN  /\ cpu' = t.c
             /\ mem' = t.mem
             /\ out' = t.out
             /\ ret' = t.clk
             /\ hist' = Remember(Call("step", inb))
             /\ host' = t.host
    /\ calls' = calls + 1

SpecOps == InitOps /\ [][RunOps]_vars

(* ---- the BASIC SBC: 8 KiB of ROM, RAM above it, the ACIA on ports 80h/81h -- *)
CYCLES_PER_POLL == 7373
BASIC_ROM_SIZE == 8192
(* the most iterations of the run loop *)
MaxBasic == 850

(* the interrupt service routine of the ROMs: IN A,(81h); EI; RET at 0038h *)
RomIsr == (56 :> 219) @@ (57 :> 129) @@ (58 :> OP_EI) @@ (59 :> OP_RET)

(* 8 KiB ROM images, zero past the bytes given here *)
RomImages ==
    { (* stack and data in the ROM area: LD SP,1000h; LD A,55h; LD (0100h),A; *)
      (* PUSH AF; LD HL,0; LD DE,1FFEh; LD BC,4; LDIR; LD A,96h;              *)
      (* OUT (80h),A; EI; INC (HL); then EX (SP),HL; JR -3 for ever           *)
      LoadAt(RomIsr, 0, <<49, 0, 16, 62, 85, 50, 0, 1, 245, 33, 0, 0,
                          17, 254, 31, 1, 4, 0, OP_ED, 176, 62, 150, 211, 128,
                          OP_EI, 52, 227, 24, 253>>),
      (* stack in RAM: LD SP,3000h; LD A,96h; OUT (80h),A; IN A,(80h); IM 1;   *)
      (* EI; then EX (SP),HL; JR -3 for ever                                  *)
      LoadAt(RomIsr, 0, <<49, 0, 48, 62, 150, 211, 128, 219, 128, OP_ED, 86,
                          OP_EI, 227, 24, 253>>),
      (* a master reset with a byte received: LD SP,3000h; LD A,96h;           *)
      (* OUT (80h),A; IN A,(80h); LD A,03h; OUT (80h),A; LD C,81h; IN B,(C);   *)
      (* then EX (SP),HL; JR -3 for ever                                      *)
      LoadAt(RomIsr, 0, <<49, 0, 48, 62, 150, 211, 128, 219, 128, 62, 3,
                          211, 128, 14, 129, OP_ED, 64, 227, 24, 253>>),
      (* interrupts enabled for one instruction in a loop of 73 T-states:      *)
      (* LD SP,3000h; LD A,96h; OUT (80h),A; IN A,(80h); then RLC (IX+0);      *)
      (* EI; NOP; DI; LD (3000h),BC; NEG; JP 0009h                             *)
      LoadAt(RomIsr, 0, <<49, 0, 48, 62, 150, 211, 128, 219, 128,
                          221, 203, 0, 6, OP_EI, 0, OP_DI, OP_ED, 67, 0, 48,
                          OP_ED, 68, 195, 9, 0>>) }

(* what stdin holds when it is looked at: nothing, or one byte *)
StdinData == {<<>>, <<65>>}

(* main() and sys_basic_init: z80_init, the ROM loaded, the ACIA reset *)
InitBasic ==
    \E rom \in RomImages :
        /\ cpu = z80_init
        /\ mem = rom
        /\ out = <<>>
        /\ ret = 0
        /\ hist = <<>>
        /\ calls = 0
        /\ host = [TestHost EXCEPT !.sys = "basic", !.rom_size = BASIC_ROM_SIZE,
                                   !.cycles_until_poll = CYCLES_PER_POLL]

(* one iteration of the loop of sys_basic_run: a step, the countdown, and   *)
(* when it has run out the poll and the interrupt. The history gets the     *)
(* step and, when the loop polled, a second record with the CPU after the   *)
(* step and the host before the poll, named interrupt when z80_interrupt    *)
(* was called.                                                              *)
BasicRun ==
    /\ calls < MaxBasic
    /\ \E in_step \in StdinData :
       \E t \in {z80_step([Mach(0) EXCEPT !.host.stdin = in_step])} :
         LET left == t.host.cycles_until_poll - t.clk
             polled == left <= 0
             t1 == [t EXCEPT !.host.cycles_until_poll =
                                IF polled THEN CYCLES_PER_POLL ELSE left,
                             !.host.stdin = <<>>]
         IN  \E at_poll \in IF polled THEN StdinData ELSE {<<>>} :
             \E t2 \in {IF polled THEN acia_poll([t1 EXCEPT !.host.stdin = at_poll])
                        ELSE t1} :
               LET deliver == /\ polled
                              /\ t2.host.acia_rx_full # 0
                              /\ t2.host.acia_control >= 128
                              /\ t2.c.iff1 # 0
                   stepped == Remember(Call("step", 0))
                   pollrec == [op |-> IF deliver THEN "interrupt" ELSE "poll",
                               data |-> 255, c |-> t.c, mem |-> t.mem,
                               out |-> t.out, host |-> t1.host]
               IN  \E t3 \in {IF deliver THEN z80_interrupt(t2, 255) ELSE t2} :
                     /\ cpu' = t3.c
                     /\ mem' = t3.mem
                     /\ out' = t3.out
                     /\ ret' = t.clk
                     /\ host' = [t3.host EXCEPT !.stdin = <<>>]
                     /\ hist' = IF polled THEN Push(stepped, pollrec) ELSE stepped
    /\ calls' = calls + 1

SpecBasic == InitBasic /\ [][BasicRun]_vars

(* ---- reading the history -------------------------------------------------- *)
(* the most recent call and the one before it; each holds the state before it *)
Called == Len(hist) >= 1
CalledTwice == Len(hist) >= 2
Was(h, op) == h.op = op
ByteAt(h, k) == MemRead(h.mem, U16(h.c.pc + k))
(* the step call h fetched and executed the one-byte opcode op *)
Executes(h, op) == Was(h, "step") /\ h.c.halted = 0 /\ ByteAt(h, 0) = op
(* the step call h executed the ED-prefixed opcode op, bare or behind DD/FD *)
ExecutesED(h, op) ==
    /\ Was(h, "step") /\ h.c.halted = 0
    /\ \/ ByteAt(h, 0) = OP_ED /\ ByteAt(h, 1) = op
       \/ ByteAt(h, 0) \in {221, 253} /\ ByteAt(h, 1) = OP_ED /\ ByteAt(h, 2) = op
WordAt(m, addr) == MemRead(m, U16(addr)) + 256 * MemRead(m, U16(addr + 1))
(* the call h left every register, flip-flop, counter and byte as it was *)
Untouched(h) == cpu = h.c /\ mem = h.mem
(* the call pushed the PC it found: SP is 2 lower and holds that PC, low byte first *)
PushedPC(h) ==
    /\ cpu.sp = U16(h.c.sp - 2)
    /\ MemRead(mem, cpu.sp) = Lo(h.c.pc)
    /\ MemRead(mem, U16(cpu.sp + 1)) = Hi(h.c.pc)

(* C1: every z80_step call adds to clocks exactly the T-states it returns,  *)
(* on the halted, unprefixed, CB, ED, DD/FD, DDCB/FDCB, wasted-prefix and   *)
(* prefix-chain paths alike.                                                *)
C1_ClocksAdvanceByReturn ==
    (Called /\ Was(hist[1], "step")) => cpu.clocks = hist[1].c.clocks + ret

(* a DDCB/FDCB step (23 T-states) has been counted *)
C1_Witness ==
    /\ Called /\ Was(hist[1], "step")
    /\ ByteAt(hist[1], 0) \in {221, 253} /\ ByteAt(hist[1], 1) = 203
    /\ ret = 23 /\ cpu.clocks = hist[1].c.clocks + 23

(* C2 (as claimed): an interrupt request issued right after the step that   *)
(* executed EI, before the next step, is not accepted, whatever IFF1 was    *)
(* before the EI: PC, SP, IFF1, IFF2 and memory stay as they were.          *)
C2_NoAcceptRightAfterEI ==
    (CalledTwice /\ Was(hist[1], "interrupt") /\ Executes(hist[2], OP_EI))
        => /\ cpu.pc = hist[1].c.pc /\ cpu.sp = hist[1].c.sp
           /\ cpu.iff1 = hist[1].c.iff1 /\ cpu.iff2 = hist[1].c.iff2
           /\ mem = hist[1].mem

(* C3: halted implies the byte at PC is HALT (76h); a step taken while      *)
(* halted returns 4 T-states and leaves PC and halted as they were.         *)
C3_HaltedAtHalt ==
    /\ cpu.halted # 0 => MemRead(mem, cpu.pc) = OP_HALT
    /\ (Called /\ Was(hist[1], "step") /\ hist[1].c.halted # 0)
          => /\ ret = 4
             /\ cpu.pc = hist[1].c.pc
             /\ cpu.halted = hist[1].c.halted

(* a step was taken while the CPU was halted *)
C3_Witness ==
    /\ Called /\ Was(hist[1], "step") /\ hist[1].c.halted # 0
    /\ cpu.halted # 0 /\ MemRead(mem, cpu.pc) = OP_HALT /\ ret = 4

(* C4 (as claimed): bit 7 of R after any z80_step equals bit 7 of R before. *)
C4_RBit7AfterAnyStep ==
    (Called /\ Was(hist[1], "step")) => And(cpu.r, 128) = And(hist[1].c.r, 128)

(* C4 (amended): a step that does not execute LD R,A (ED 4F, bare or behind *)
(* a DD/FD prefix) leaves bit 7 of R as it was; LD R,A copies all eight     *)
(* bits of A into R.                                                        *)
C4_RBit7ExceptLdRA ==
    (Called /\ Was(hist[1], "step"))
        => IF ExecutesED(hist[1], OP_LD_R_A)
           THEN cpu.r = hist[1].c.a
           ELSE And(cpu.r, 128) = And(hist[1].c.r, 128)

(* a step other than LD R,A incremented R while its bit 7 was set *)
C4_Witness ==
    /\ Called /\ Was(hist[1], "step") /\ ~ExecutesED(hist[1], OP_LD_R_A)
    /\ hist[1].c.r >= 128 /\ cpu.r >= 128 /\ cpu.r # hist[1].c.r

(* C5 (as claimed): z80_interrupt called while IFF1 is 0, or while ei_delay *)
(* is active, changes nothing.                                              *)
C5_MaskedInterruptChangesNothing ==
    (Called /\ Was(hist[1], "interrupt")
        /\ (hist[1].c.iff1 = 0 \/ hist[1].c.ei_delay # 0))
        => Untouched(hist[1])

(* C6: in IM 1 with IFF1 = 1, z80_interrupt with any data byte pushes PC,   *)
(* sets PC to 0038h, clears IFF1 and IFF2 and adds 13 T-states; a RET       *)
(* executed next restores PC and SP to what they were before the interrupt. *)
Im1Accepted(h) == Was(h, "interrupt") /\ h.c.im = 1 /\ h.c.iff1 # 0

C6_Im1Interrupt ==
    /\ (Called /\ Im1Accepted(hist[1]))
          => /\ PushedPC(hist[1])
             /\ cpu.pc = 56
             /\ cpu.iff1 = 0 /\ cpu.iff2 = 0
             /\ cpu.clocks = hist[1].c.clocks + 13
    /\ (CalledTwice /\ Im1Accepted(hist[2]) /\ Executes(hist[1], OP_RET))
          => /\ cpu.pc = hist[2].c.pc
             /\ cpu.sp = hist[2].c.sp

(* an IM 1 interrupt was accepted and the RET of its handler has returned *)
C6_Witness ==
    /\ CalledTwice /\ Im1Accepted(hist[2]) /\ Executes(hist[1], OP_RET)
    /\ hist[1].c.pc = 56 /\ cpu.pc = hist[2].c.pc

(* C7: z80_nmi, whatever IFF1 is, copies IFF1 into IFF2 and then clears     *)
(* IFF1, clears halted and ei_delay, pushes PC, sets PC to 0066h and adds   *)
(* 11 T-states.                                                             *)
C7_Nmi ==
    (Called /\ Was(hist[1], "nmi"))
        => /\ cpu.iff2 = hist[1].c.iff1
           /\ cpu.iff1 = 0
           /\ cpu.halted = 0
           /\ cpu.ei_delay = 0
           /\ PushedPC(hist[1])
           /\ cpu.pc = 102
           /\ cpu.clocks = hist[1].c.clocks + 11

(* an NMI arrived with IFF1 = 1 and IFF2 now holds that 1 *)
C7_Witness ==
    /\ Called /\ Was(hist[1], "nmi")
    /\ hist[1].c.iff1 = 1 /\ cpu.iff2 = 1 /\ cpu.iff1 = 0 /\ cpu.pc = 102

(* C8 (as claimed): a step executing RETN/RETI (ED 45) pops PC and leaves   *)
(* in IFF1 the value IFF2 had when the step began.                          *)
C8_RetnRestoresIFF1 ==
    (Called /\ ExecutesED(hist[1], OP_RETN))
        => /\ cpu.iff1 = hist[1].c.iff2
           /\ cpu.pc = WordAt(hist[1].mem, hist[1].c.sp)
           /\ cpu.sp = U16(hist[1].c.sp + 2)

(* C9 (as claimed): right after the step that executes EI, IFF1 = 1,        *)
(* IFF2 = 1 and ei_delay = 1; after the next step, executing an instruction *)
(* other than EI, ei_delay = 0.                                             *)
C9_EiSetsFlipFlopsAndDelay ==
    /\ (Called /\ Executes(hist[1], OP_EI))
          => cpu.iff1 = 1 /\ cpu.iff2 = 1 /\ cpu.ei_delay = 1
    /\ (CalledTwice /\ Executes(hist[2], OP_EI) /\ Was(hist[1], "step")
           /\ ~Executes(hist[1], OP_EI))
          => cpu.ei_delay = 0

(* C10: an interrupt accepted while halted (maskable with IFF1 = 1, or NMI) *)
(* clears halted, and the return address it pushes is the address of the    *)
(* HALT instruction itself, the PC held while halted.                       *)
AcceptedHalted(h) ==
    /\ h.c.halted # 0
    /\ Was(h, "nmi") \/ (Was(h, "interrupt") /\ h.c.iff1 # 0)
(* every accepted interrupt pushes, but for a byte that is no RST in IM 0 *)
Vectors(h) ==
    Was(h, "nmi") \/ h.c.im # 0 \/ And(h.data, 199) = 199

Im2Accepted(h) == Was(h, "interrupt") /\ h.c.im = 2 /\ h.c.iff1 # 0
Im2Entry(h) == h.c.i * 256 + (h.data - (h.data % 2))

C11_Im2Vector ==
    (Called /\ Im2Accepted(hist[1]))
        => /\ PushedPC(hist[1])
           /\ cpu.pc = WordAt(mem, Im2Entry(hist[1]))
           /\ cpu.clocks = hist[1].c.clocks + 19
           /\ cpu.iff1 = 0 /\ cpu.iff2 = 0

(* an IM 2 interrupt with the odd data byte CFh went through entry CEh to 1234h *)
C11_Witness ==
    /\ Called /\ Im2Accepted(hist[1]) /\ hist[1].data = 207
    /\ hist[1].c.i = 128 /\ cpu.pc = 4660

(* ---- claims about single instructions ------------------------------------- *)
(* the machine a recorded call started from, with inb on the ports *)
Before(h, inb) ==
    [c |-> h.c, mem |-> h.mem, out |-> h.out, inb |-> inb, host |-> h.host, clk |-> 0]
(* the step call h executed the bytes pre, op *)
PrefixedOp(h, pre, op) ==
    Was(h, "step") /\ h.c.halted = 0 /\ ByteAt(h, 0) = pre /\ ByteAt(h, 1) = op

(* C12 (as claimed): a single step executing DD E9 sets PC to IX, and one   *)
(* executing FD E9 sets PC to IY, whatever HL holds.                        *)
C12_JpIndex ==
    /\ (Called /\ PrefixedOp(hist[1], 221, 233)) => cpu.pc = hist[1].c.ix
    /\ (Called /\ PrefixedOp(hist[1], 253, 233)) => cpu.pc = hist[1].c.iy

(* C13 (as claimed): a single step executing DD 09/19/29/39 stores          *)
(* IX + rp modulo 2^16 in IX, rp being BC, DE, IX or SP, and leaves HL      *)
(* unchanged.                                                               *)
AddIndexOperand(c, op) ==
    CASE op = 9  -> c.b * 256 + c.c
      [] op = 25 -> c.d * 256 + c.e
      [] op = 41 -> c.ix
      [] op = 57 -> c.sp

C13_AddIndex ==
    \A op \in {9, 25, 41, 57} :
        (Called /\ PrefixedOp(hist[1], 221, op))
            => /\ cpu.ix = (hist[1].c.ix + AddIndexOperand(hist[1].c, op)) % 65536
               /\ cpu.h = hist[1].c.h /\ cpu.l = hist[1].c.l

(* C14: an opcode that names neither H, L nor (HL), executed behind one DD  *)
(* or FD prefix, ends in the same registers (R aside), flags, memory and    *)
(* port writes as the bare opcode executed from the same state with PC on   *)
(* the opcode, and in 4 T-states more; IX and IY are as they were. The      *)
(* prefixed form takes one step, or two when the prefix is stepped alone.   *)
PrefixedPlain(h) ==
    /\ Was(h, "step") /\ h.c.halted = 0
    /\ ByteAt(h, 0) \in IndexPrefixes /\ ByteAt(h, 1) \in NoHLOps
(* the bare opcode executed from the state h started in, PC past the prefix *)
Plain(h, inb) ==
    z80_step([Before(h, inb) EXCEPT !.c.pc = U16(@ + 1)])
SameButR(c1, c2) == [c1 EXCEPT !.r = 0] = [c2 EXCEPT !.r = 0]
(* the state now is what the bare opcode leaves, 4 T-states later *)
EndsAs(e) ==
    /\ SameButR(cpu, [e.c EXCEPT !.clocks = @ + 4])
    /\ mem = e.mem
    /\ out = e.out
(* the step h only consumed the prefix: the opcode is still to be executed *)
PrefixOnly(h, c) ==
    /\ c.pc = U16(h.c.pc + 1) /\ c.clocks = h.c.clocks + 4 /\ c.halted = 0
    /\ [c EXCEPT !.pc = 0, !.r = 0, !.clocks = 0, !.iff1 = 0, !.iff2 = 0, !.ei_delay = 0]
         = [h.c EXCEPT !.pc = 0, !.r = 0, !.clocks = 0, !.iff1 = 0, !.iff2 = 0, !.ei_delay = 0]

C14_WastedPrefix ==
    /\ (Called /\ PrefixedPlain(hist[1]))
          => \/ /\ EndsAs(Plain(hist[1], hist[1].data))
                /\ ret = Plain(hist[1], hist[1].data).clk + 4
                /\ cpu.ix = hist[1].c.ix /\ cpu.iy = hist[1].c.iy
             \/ /\ PrefixOnly(hist[1], cpu)
                /\ ret = 4 /\ mem = hist[1].mem /\ out = hist[1].out
    /\ (CalledTwice /\ PrefixedPlain(hist[2]) /\ Was(hist[1], "step")
           /\ PrefixOnly(hist[2], hist[1].c) /\ hist[1].mem = hist[2].mem)
          => /\ EndsAs(Plain(hist[2], hist[1].data))
             /\ ret = Plain(hist[2], hist[1].data).clk
             /\ cpu.ix = hist[2].c.ix /\ cpu.iy = hist[2].c.iy

(* DD before CALL nn took two steps and pushed the address after the operand *)
C14_Witness ==
    /\ CalledTwice /\ PrefixedOp(hist[2], 221, 205) /\ Was(hist[1], "step")
    /\ PrefixOnly(hist[2], hist[1].c)
    /\ cpu.pc = 16389 /\ WordAt(mem, cpu.sp) = 4
    /\ cpu.clocks = hist[2].c.clocks + 21

(* FD before LD B,C took one step of 8 T-states *)
C14_WitnessOneStep ==
    /\ Called /\ PrefixedOp(hist[1], 253, 65)
    /\ cpu.b = hist[1].c.c /\ cpu.b # hist[1].c.b /\ ret = 8 /\ cpu.pc = 2

(* C15: in a chain of DD/FD prefixes only the last one selects the index    *)
(* register, and each earlier prefix is a step of 4 T-states.               *)
(* the step call h executed a DD or FD that another DD or FD follows *)
ChainPrefix(h) ==
    /\ Was(h, "step") /\ h.c.halted = 0
    /\ ByteAt(h, 0) \in IndexPrefixes /\ ByteAt(h, 1) \in IndexPrefixes
(* after a chain prefix the step h executed LD IX,nn (ix) or LD IY,nn *)
LastSelects(h0, h) ==
    /\ (PrefixedOp(h, 253, 33) /\ h.c.pc = U16(h0.c.pc + 1))
          => cpu.iy = WordAt(h.mem, h.c.pc + 2) /\ cpu.ix = h0.c.ix
    /\ (PrefixedOp(h, 221, 33) /\ h.c.pc = U16(h0.c.pc + 1))
          => cpu.ix = WordAt(h.mem, h.c.pc + 2) /\ cpu.iy = h0.c.iy

(* C15 (as claimed): each earlier prefix costs 4 T-states and changes       *)
(* nothing but PC, R and clocks; the last prefix selects the register.      *)
C15_ChainChangesOnlyPcRClocks ==
    /\ (Called /\ ChainPrefix(hist[1]))
          => /\ ret = 4
             /\ cpu = [hist[1].c EXCEPT !.pc = U16(@ + 1), !.r = cpu.r,
                                        !.clocks = @ + 4]
             /\ mem = hist[1].mem /\ out = hist[1].out
    /\ (CalledTwice /\ ChainPrefix(hist[2])) => LastSelects(hist[2], hist[1])

(* C15 (amended): each earlier prefix costs 4 T-states and changes nothing  *)
(* but PC, R, clocks and, as every step does, a pending EI delay: with      *)
(* ei_delay set the step clears it and sets IFF1 and IFF2. The last prefix  *)
(* selects the register.                                                    *)
C15_ChainPrefixIsNoOp ==
    /\ (Called /\ ChainPrefix(hist[1]))
          => /\ ret = 4
             /\ cpu = [hist[1].c EXCEPT
                          !.pc = U16(@ + 1), !.r = cpu.r, !.clocks = @ + 4,
                          !.ei_delay = 0,
                          !.iff1 = IF hist[1].c.ei_delay = 1 THEN 1 ELSE @,
                          !.iff2 = IF hist[1].c.ei_delay = 1 THEN 1 ELSE @]
             /\ mem = hist[1].mem /\ out = hist[1].out
    /\ (CalledTwice /\ ChainPrefix(hist[2])) => LastSelects(hist[2], hist[1])

(* DD FD 21 01 02 has loaded 0201h into IY and left IX alone *)
C15_Witness ==
    /\ CalledTwice /\ ChainPrefix(hist[2]) /\ ByteAt(hist[2], 0) = 221
    /\ PrefixedOp(hist[1], 253, 33)
    /\ cpu.iy = 513 /\ cpu.ix = hist[2].c.ix /\ cpu.ix # 513
    /\ hist[2].c.iy # 513

(* C16: a DDCB/FDCB rotate, shift, RES or SET writes its result to the byte *)
(* at (IX+d)/(IY+d) and, when z is not 6, also to the plain register r[z];  *)
(* with z = 6 only memory is written; BIT writes neither.                   *)
IndexedCB(h) ==
    /\ Was(h, "step") /\ h.c.halted = 0
    /\ ByteAt(h, 0) \in IndexPrefixes /\ ByteAt(h, 1) = 203
IndexedAddr(h) ==
    LET idx == IF ByteAt(h, 0) = 221 THEN h.c.ix ELSE h.c.iy
        d == ByteAt(h, 2)
    IN  (idx + (IF d >= 128 THEN d - 256 ELSE d)) % 65536
BitSet(val, bit) == (val \div Pow2(bit)) % 2 = 1
IndexedResult(h) ==
    LET op == ByteAt(h, 3)
        val == MemRead(h.mem, IndexedAddr(h))
    IN  CASE X(op) = 0 -> RotByY(Before(h, 0), Y(op), val).r
          [] X(op) = 2 -> IF BitSet(val, Y(op)) THEN val - Pow2(Y(op)) ELSE val
          [] OTHER     -> IF BitSet(val, Y(op)) THEN val ELSE val + Pow2(Y(op))
Regs8(c) == <<c.b, c.c, c.d, c.e, c.h, c.l, 0, c.a>>

C16_IndexedBitCopy ==
    (Called /\ IndexedCB(hist[1]))
        => LET op == ByteAt(hist[1], 3)
               z == Z(op)
           IN  IF X(op) = 1
               THEN mem = hist[1].mem /\ Regs8(cpu) = Regs8(hist[1].c)
               ELSE /\ MemRead(mem, IndexedAddr(hist[1])) = IndexedResult(hist[1])
                    /\ z # 6 => Regs8(cpu)[z + 1] = IndexedResult(hist[1])
                    /\ z = 6 => Regs8(cpu) = Regs8(hist[1].c)

(* RRC (IX+d) has put its result into both the memory byte and B *)
C16_Witness ==
    /\ Called /\ IndexedCB(hist[1]) /\ ByteAt(hist[1], 3) = 8
    /\ cpu.b = IndexedResult(hist[1]) /\ cpu.b # hist[1].c.b
    /\ MemRead(mem, IndexedAddr(hist[1])) = cpu.b
    /\ MemRead(hist[1].mem, IndexedAddr(hist[1])) # cpu.b

(* ---- claims about block instructions -------------------------------------- *)
Pair(hi, lo) == hi * 256 + lo
RepeatLd == {176, 184}
RepeatCp == {177, 185}
RepeatIo == {178, 186, 179, 187}
(* the step call h executed a bare repeating block instruction *)
RepeatsBlock(h) ==
    /\ Was(h, "step") /\ h.c.halted = 0 /\ ByteAt(h, 0) = OP_ED
    /\ ByteAt(h, 1) \in RepeatLd \cup RepeatCp \cup RepeatIo
(* after the step call h there is work left for its block instruction *)
WorkRemains(h) ==
    LET op == ByteAt(h, 1)
    IN  CASE op \in RepeatLd -> Pair(cpu.b, cpu.c) # 0
          [] op \in RepeatCp ->
                /\ Pair(cpu.b, cpu.c) # 0
                /\ h.c.a # MemRead(h.mem, Pair(h.c.h, h.c.l))
          [] OTHER -> cpu.b # 0
(* the step call h made one iteration: the counter went down by one and HL *)
(* moved by one                                                            *)
OneIteration(h) ==
    LET op == ByteAt(h, 1)
        step == IF op \in {176, 177, 178, 179} THEN 1 ELSE -1
    IN  /\ Pair(cpu.h, cpu.l) = (Pair(h.c.h, h.c.l) + step) % 65536
        /\ IF op \in RepeatIo
           THEN cpu.b = (h.c.b - 1) % 256 /\ cpu.c = h.c.c
           ELSE Pair(cpu.b, cpu.c) = (Pair(h.c.b, h.c.c) - 1) % 65536
        /\ op \in RepeatLd =>
              /\ Pair(cpu.d, cpu.e) = (Pair(h.c.d, h.c.e) + step) % 65536
              /\ MemRead(mem, Pair(h.c.d, h.c.e)) = MemRead(h.mem, Pair(h.c.h, h.c.l))

(* C17: one step of LDIR, LDDR, CPIR, CPDR, INIR, INDR, OTIR or OTDR makes  *)
(* one iteration; with work left PC stays on the ED byte and the step       *)
(* returns 21, otherwise PC is past the instruction and it returns 16.      *)
C17_RepeatOneIterationPerStep ==
    (Called /\ RepeatsBlock(hist[1]))
        => /\ OneIteration(hist[1])
           /\ IF WorkRemains(hist[1])
              THEN cpu.pc = hist[1].c.pc /\ ret = 21
              ELSE cpu.pc = U16(hist[1].c.pc + 2) /\ ret = 16

(* a CPIR step compared a byte that differs from A with BC left: it repeats *)
C17_Witness ==
    /\ Called /\ RepeatsBlock(hist[1]) /\ ByteAt(hist[1], 1) = 177
    /\ WorkRemains(hist[1]) /\ cpu.pc = hist[1].c.pc /\ ret = 21
    /\ Pair(cpu.b, cpu.c) = 2

(* what the program in memory was set up with *)
RunA == MemRead(mem, 1)
RunHL == WordAt(mem, 3)
RunDE == WordAt(mem, 6)
RunBC == WordAt(mem, 9)
RunOp == MemRead(mem, 12)
(* LD A,n; LD HL,nn; LD DE,nn; LD BC,nn *)
SetupOpcodes == <<62, 33, 17, 1>>
SetupSteps == Len(SetupOpcodes)
BlockAt == Len(BlockProgram([a |-> 0, hl |-> 0, de |-> 0, bc |-> 0, op |-> 0])) - 3
BlockPast == BlockAt + 2
Range(from, n) == {(from + k) % 65536 : k \in 0..(n - 1)}
FlagSet(flag) == (cpu.f \div flag) % 2 = 1

(* C18: LDIR with BC = n > 0 whose destination overlaps neither the source  *)
(* nor the program ends after exactly n steps: until then PC is on the      *)
(* instruction, then the n destination bytes equal the n source bytes,      *)
(* BC = 0, HL and DE are n further, P/V is clear and PC is past it.         *)
LdirRun ==
    /\ RunOp = 176 /\ RunBC > 0 /\ RunBC <= MaxScan
    /\ Range(RunDE, RunBC) \cap (Range(RunHL, RunBC) \cup 0..BlockPast) = {}

C18_LdirCopies ==
    LdirRun
        => /\ (calls >= SetupSteps /\ calls < SetupSteps + RunBC)
                 => cpu.pc = BlockAt
           /\ calls = SetupSteps + RunBC
                 => /\ cpu.pc = BlockPast /\ cpu.halted = 0
                    /\ \A k \in 0..(RunBC - 1) :
                          MemRead(mem, RunDE + k) = MemRead(SourceMem, RunHL + k)
                    /\ Pair(cpu.b, cpu.c) = 0
                    /\ Pair(cpu.h, cpu.l) = RunHL + RunBC
                    /\ Pair(cpu.d, cpu.e) = RunDE + RunBC
                    /\ ~FlagSet(Z80_PF)

(* LDIR of 4 bytes has ended: 2000h..2003h hold 11h 22h 33h 44h *)
C18_Witness ==
    /\ LdirRun /\ RunBC = 4 /\ calls = SetupSteps + 4 /\ cpu.pc = BlockPast
    /\ MemRead(mem, 8192) = 17 /\ MemRead(mem, 8195) = 68
    /\ Pair(cpu.b, cpu.c) = 0

(* C19: block-instruction loops end.                                        *)
(* the program in memory was set up around a repeating block instruction *)
RepeatRun == RunOp \in RepeatLd \cup RepeatCp \cup RepeatIo
(* the most iterations a loop can take: the counter is B for the I/O forms, *)
(* BC for the others, and a counter of 0 wraps to its largest value         *)
IterMax(op) == IF op \in RepeatIo THEN 256 ELSE 65536
(* the run is over: the CPU has halted, or every possible iteration of the  *)
(* loop has been stepped                                                    *)
RunOver == cpu.halted # 0 \/ calls >= SetupSteps + IterMax(RunOp)
(* the bytes at the block instruction's address are no longer ED and the opcode *)
BlockOverwritten ==
    \/ MemRead(mem, BlockAt) # OP_ED
    \/ MemRead(mem, BlockAt + 1) \notin RepeatLd \cup RepeatCp \cup RepeatIo

(* C19 (as claimed): stepping on from a repeating block instruction leaves  *)
(* PC past it, for every initial BC or B, 0 included, and every memory      *)
(* content: no run stops, or uses up the iterations its counter allows,     *)
(* with PC anywhere but past the instruction.                               *)
C19_BlockLoopsEnd ==
    (RepeatRun /\ RunOver) => cpu.pc = BlockPast

(* C19 (amended): the same, unless an iteration overwrites the bytes of the *)
(* instruction itself with another instruction.                             *)
C19_BlockLoopsEndUnlessOverwritten ==
    (RepeatRun /\ RunOver) => (cpu.pc = BlockPast \/ BlockOverwritten)

(* CPIR started with BC = 0 has ended after 65536 iterations *)
C19_Witness ==
    /\ RunOp = 177 /\ RunBC = 0 /\ cpu.pc = BlockPast /\ cpu.halted = 0
    /\ calls = SetupSteps + 65536 /\ Pair(cpu.b, cpu.c) = 0

(* C20: CPIR with A = v scans upward from HL and stops at the first byte    *)
(* equal to v or when BC reaches 0. On a match the last step leaves Z set,  *)
(* HL one past the matching byte, BC lower by the bytes examined and A as   *)
(* it was; with no match in BC bytes it ends with Z clear, P/V clear and    *)
(* BC = 0. CPI on a matching byte sets Z and takes one off BC.              *)
CpirRun == RunOp = 177 /\ RunBC > 0 /\ RunBC <= MaxScan
ScanMatches(k) == MemRead(mem, (RunHL + k) % 65536) = RunA
ScanFound == \E k \in 0..(RunBC - 1) : ScanMatches(k)
FirstMatch ==
    CHOOSE k \in 0..(RunBC - 1) :
        ScanMatches(k) /\ \A j \in 0..(k - 1) : ~ScanMatches(j)
Examined == IF ScanFound THEN FirstMatch + 1 ELSE RunBC

C20_CpirScan ==
    /\ CpirRun
          => /\ (calls >= SetupSteps /\ calls < SetupSteps + Examined)
                   => cpu.pc = BlockAt
             /\ calls = SetupSteps + Examined
                   => /\ cpu.pc = BlockPast /\ cpu.halted = 0
                      /\ cpu.a = RunA
                      /\ Pair(cpu.b, cpu.c) = RunBC - Examined
                      /\ IF ScanFound
                         THEN /\ FlagSet(Z80_ZF)
                              /\ Pair(cpu.h, cpu.l) = RunHL + FirstMatch + 1
                         ELSE /\ ~FlagSet(Z80_ZF) /\ ~FlagSet(Z80_PF)
                              /\ Pair(cpu.b, cpu.c) = 0
    /\ (RunOp = 161 /\ calls = SetupSteps + 1 /\ MemRead(mem, RunHL) = RunA)
          => /\ FlagSet(Z80_ZF)
             /\ Pair(cpu.b, cpu.c) = (RunBC - 1) % 65536

(* CPIR for 33h over 11h 22h 33h 44h with BC = 5 stopped on the third byte *)
C20_Witness ==
    /\ CpirRun /\ RunA = 51 /\ RunBC = 5 /\ calls = SetupSteps + 3
    /\ cpu.pc = BlockPast /\ FlagSet(Z80_ZF)
    /\ Pair(cpu.h, cpu.l) = 4099 /\ Pair(cpu.b, cpu.c) = 2

(* ---- claims about flags, the stack and unassigned opcodes ----------------- *)
InputBlock == {162, 170, 178, 186}
(* C21 (as claimed): after INI, IND, INIR or INDR the N flag equals bit 7   *)
(* of the byte read from the port, the byte is stored at the old (HL), HL   *)
(* has moved by +1 or -1 and B is one less.                                 *)
C21_InputBlockFlags ==
    \A op \in InputBlock :
        (Called /\ PrefixedOp(hist[1], OP_ED, op))
            => LET h == hist[1]
                   hl == Pair(h.c.h, h.c.l)
                   step == IF op \in {162, 178} THEN 1 ELSE -1
               IN  /\ FlagSet(Z80_NF) <=> hist[1].data >= 128
                   /\ MemRead(mem, hl) = h.data
                   /\ Pair(cpu.h, cpu.l) = (hl + step) % 65536
                   /\ cpu.b = (h.c.b - 1) % 256

(* the step call h executed CP n *)
ComparesImmediate(h) == Was(h, "step") /\ h.c.halted = 0 /\ ByteAt(h, 0) = OP_CP_N
Signed8(v) == IF v >= 128 THEN v - 256 ELSE v
(* C22 (as claimed): CP v leaves A unchanged, takes F3 and F5 from bits 3   *)
(* and 5 of v, sets N, sets Z iff A = v, C iff A < v, H on a borrow from    *)
(* bit 4 and P/V on signed overflow of A - v.                               *)
C22_Compare ==
    (Called /\ ComparesImmediate(hist[1]))
        => LET a == hist[1].c.a
               v == ByteAt(hist[1], 1)
               d == Signed8(a) - Signed8(v)
           IN  /\ cpu.a = a
               /\ And(cpu.f, Z80_YF + Z80_XF) = And(v, Z80_YF + Z80_XF)
               /\ FlagSet(Z80_NF)
               /\ FlagSet(Z80_ZF) <=> a = v
               /\ FlagSet(Z80_CF) <=> a < v
               /\ FlagSet(Z80_HF) <=> a % 16 < v % 16
               /\ FlagSet(Z80_PF) <=> (d > 127 \/ d < -128)

(* the byte sequences of PUSH rp and of the POP rp that undoes it *)
StackForms ==
    { [push |-> <<197>>, pop |-> <<193>>, rp |-> "bc"],
      [push |-> <<213>>, pop |-> <<209>>, rp |-> "de"],
      [push |-> <<229>>, pop |-> <<225>>, rp |-> "hl"],
      [push |-> <<245>>, pop |-> <<241>>, rp |-> "af"],
      [push |-> <<221, 229>>, pop |-> <<221, 225>>, rp |-> "ix"],
      [push |-> <<253, 229>>, pop |-> <<253, 225>>, rp |-> "iy"] }
(* the step call h executed the instruction made of these bytes *)
ExecutesBytes(h, bytes) ==
    /\ Was(h, "step") /\ h.c.halted = 0
    /\ \A k \in 1..Len(bytes) : ByteAt(h, k - 1) = bytes[k]
PairValue(c, rp) ==
    CASE rp = "bc" -> Pair(c.b, c.c)
      [] rp = "de" -> Pair(c.d, c.e)
      [] rp = "hl" -> Pair(c.h, c.l)
      [] rp = "af" -> Pair(c.a, c.f)
      [] rp = "ix" -> c.ix
      [] rp = "iy" -> c.iy
PushedThenPopped(form) ==
    CalledTwice /\ ExecutesBytes(hist[2], form.push) /\ ExecutesBytes(hist[1], form.pop)

(* C23: PUSH rp then POP rp, for BC, DE, HL, AF, IX and IY and every SP,    *)
(* leaves rp and SP as they were before the PUSH; the PUSH stored the high  *)
(* byte at SP-1 and the low byte at SP-2, addresses taken modulo 2^16.      *)
C23_PushPopIdentity ==
    \A form \in StackForms :
        PushedThenPopped(form)
            => LET before == hist[2].c
                   val == PairValue(before, form.rp)
               IN  /\ PairValue(cpu, form.rp) = val
                   /\ cpu.sp = before.sp
                   /\ hist[1].c.sp = (before.sp - 2) % 65536
                   /\ MemRead(hist[1].mem, (before.sp - 1) % 65536) = Hi(val)
                   /\ MemRead(hist[1].mem, (before.sp - 2) % 65536) = Lo(val)

(* PUSH IX with SP = 0001h put DEh at 0000h and ADh at FFFFh, and POP IX    *)
(* brought IX and SP back                                                   *)
C23_Witness ==
    /\ PushedThenPopped([push |-> <<221, 229>>, pop |-> <<221, 225>>, rp |-> "ix"])
    /\ hist[2].c.sp = 1 /\ cpu.sp = 1 /\ cpu.ix = 57005
    /\ MemRead(hist[1].mem, 0) = 222 /\ MemRead(hist[1].mem, 65535) = 173

(* the ED opcodes the Z80 assigns no instruction to: everything outside     *)
(* 40h..7Fh and the sixteen block opcodes, and 77h and 7Fh                  *)
BlockOpcodes == {160 + 8 * k + z : k \in 0..3, z \in 0..3}
UnassignedED == ((0..63) \cup ((128..255) \ BlockOpcodes)) \cup {119, 127}
(* the registers, flags and interrupt state of c, leaving out PC, R and the *)
(* T-state counter                                                          *)
Kept(c) == [c EXCEPT !.pc = 0, !.r = 0, !.clocks = 0]

(* C24 (as claimed): a step that executes an unassigned ED opcode returns   *)
(* 8, advances PC by 2 and changes no register other than R and PC, no      *)
(* flag, no interrupt state and no memory; every step returns a T-state     *)
(* count between 4 and 23, whatever the opcode.                             *)
C24_UnassignedEdChangesNothing ==
    /\ (Called /\ Was(hist[1], "step")) => ret \in 4..23
    /\ \A op \in UnassignedED :
          (Called /\ PrefixedOp(hist[1], OP_ED, op))
              => /\ ret = 8
                 /\ cpu.pc = U16(hist[1].c.pc + 2)
                 /\ Kept(cpu) = Kept(hist[1].c)
                 /\ mem = hist[1].mem /\ out = hist[1].out

(* C24 (amended): the same, except that a step entered with an EI delay     *)
(* pending ends it: ei_delay is cleared and IFF1 and IFF2 are set.          *)
AfterEiDelay(c) ==
    IF c.ei_delay # 0 THEN [c EXCEPT !.ei_delay = 0, !.iff1 = 1, !.iff2 = 1] ELSE c

C24_UnassignedEdIsNop ==
    /\ (Called /\ Was(hist[1], "step")) => ret \in 4..23
    /\ \A op \in UnassignedED :
          (Called /\ PrefixedOp(hist[1], OP_ED, op))
              => /\ ret = 8
                 /\ cpu.pc = U16(hist[1].c.pc + 2)
                 /\ Kept(cpu) = Kept(AfterEiDelay(hist[1].c))
                 /\ mem = hist[1].mem /\ out = hist[1].out

(* ED FFh was executed from registers full of ones and left them alone *)
C24_Witness ==
    /\ Called /\ PrefixedOp(hist[1], OP_ED, 255)
    /\ hist[1].c.f = 255 /\ cpu.f = 255 /\ ret = 8 /\ cpu.pc = 2

(* ---- claims about the host shells ----------------------------------------- *)
(* the bytes a memory holds below the end of the ROM *)
RomPart(m) == [a \in {x \in DOMAIN m : x < BASIC_ROM_SIZE} |-> m[a]]

(* C25: in the BASIC SBC, with the ROM loaded, no step and no interrupt     *)
(* changes a byte at 0000h..1FFFh: the memory below 2000h is what it was    *)
(* before each of the calls remembered.                                     *)
C25_RomReadOnly ==
    host.sys = "basic"
        => \A k \in 1..Len(hist) : RomPart(mem) = RomPart(hist[k].mem)

(* LDIR of 0000h..0003h to 1FFEh..2001h has ended: the two bytes sent to    *)
(* the ROM are not there, the two sent to RAM are                           *)
C25_Witness ==
    /\ host.sys = "basic" /\ Called /\ ExecutesBytes(hist[1], <<237, 176>>)
    /\ cpu.pc = 20 /\ Pair(cpu.d, cpu.e) = 8194
    /\ MemRead(mem, 0) = 49 /\ MemRead(mem, 8190) = 0
    /\ MemRead(mem, 8192) = 16 /\ MemRead(mem, 8193) = 62

(* the step of the last iteration, and the ACIA as that step left it (the   *)
(* loop may have polled after it)                                           *)
LastStep == IF hist[1].op = "step" THEN hist[1] ELSE hist[2]
AfterStepHost == IF hist[1].op = "step" THEN host ELSE hist[1].host
Polled == Called /\ hist[1].op \in {"poll", "interrupt"}
Pending(h) == h.acia_rx_full # 0
Armed(h) == h.acia_control >= 128
AciaPort(port, odd) == port >= 128 /\ port % 2 = (IF odd THEN 1 ELSE 0)
(* the step h read the data register: IN A,(n) or IN r,(C) on an odd port   *)
(* from 80h up                                                              *)
ReadsData(h) ==
    /\ Was(h, "step") /\ h.c.halted = 0
    /\ \/ ByteAt(h, 0) = 219 /\ AciaPort(ByteAt(h, 1), TRUE)
       \/ /\ ByteAt(h, 0) = OP_ED /\ ByteAt(h, 1) \in {64 + 8 * y : y \in 0..7}
          /\ AciaPort(h.c.c, TRUE)
(* the step h wrote a master reset to the control register with OUT (n),A *)
WritesReset(h) ==
    /\ Was(h, "step") /\ h.c.halted = 0
    /\ ByteAt(h, 0) = 211 /\ AciaPort(ByteAt(h, 1), FALSE) /\ h.c.a % 4 = 3
(* what holds of every delivery and of the two ways to clear RDRF *)
AciaRules ==
    /\ (Called /\ hist[1].op = "interrupt")
          => /\ hist[1].data = 255
             /\ Pending(host) /\ Armed(host) /\ hist[1].c.iff1 = 1
    /\ (Called /\ ReadsData(LastStep)) => ~Pending(AfterStepHost)
    /\ (Called /\ WritesReset(LastStep)) => ~Pending(AfterStepHost)

(* C27 (as claimed): in the BASIC SBC z80_interrupt(FFh) is called only     *)
(* with RDRF set, the receive interrupt armed and IFF1 = 1; a byte pending  *)
(* with the interrupt armed is delivered once IFF1 is set: when IFF1 is 1   *)
(* before an iteration of the loop and the iteration polls with the byte    *)
(* still pending and armed, it delivers. Reading the data register and      *)
(* writing a master reset clear RDRF.                                       *)
C27_InterruptOnceEnabled ==
    host.sys = "basic"
        => /\ AciaRules
           /\ (Polled /\ Pending(hist[2].host) /\ Armed(hist[2].host)
                      /\ hist[2].c.iff1 = 1
                      /\ Pending(hist[1].host) /\ Armed(hist[1].host))
                 => hist[1].op = "interrupt"

(* C27 (amended): the same, but the byte is delivered at a poll only when   *)
(* IFF1 is 1 at that poll, after the step of the iteration; the countdown   *)
(* to the next poll is never more than CYCLES_PER_POLL T-states.            *)
C27_InterruptAtPoll ==
    host.sys = "basic"
        => /\ AciaRules
           /\ host.cycles_until_poll \in 1..CYCLES_PER_POLL
           /\ (Polled /\ Pending(host) /\ Armed(host) /\ hist[1].c.iff1 = 1)
                 => hist[1].op = "interrupt"

(* a byte received by a status read while IFF1 was 0 is delivered at the    *)
(* first poll after EI: the CPU is at 0038h with IFF1 cleared               *)
C27_Witness ==
    /\ host.sys = "basic" /\ Called /\ hist[1].op = "interrupt"
    /\ Pending(hist[2].host) /\ host.acia_rx_data = 65
    /\ hist[1].c.iff1 = 1 /\ cpu.iff1 = 0 /\ cpu.pc = 56
    /\ WordAt(mem, cpu.sp) = hist[1].c.pc

(* ------------------------------------------------------------------------ *)
(* the CP/M shell                                                           *)
(* ------------------------------------------------------------------------ *)

MaxCpm == 12
DOLLAR == 36

(* the bytes BDOS function 9 prints: from DE up to the first '$', the       *)
(* 16-bit address wrapping; Len is -1 when memory holds no '$' and the      *)
(* handler never returns                                                    *)
DollarOffsets(s) == {(a + 65536 - DE(s)) % 65536 : a \in {k \in DOMAIN s.mem : s.mem[k] = DOLLAR}}
StringLen(s) ==
    IF DollarOffsets(s) = {} THEN -1
    ELSE CHOOSE k \in DollarOffsets(s) : \A j \in DollarOffsets(s) : k <= j
StringAt(s) == [i \in 1..StringLen(s) |-> RB(s, DE(s) + i - 1)]

(* sys_cpm_bdos: console output of E, or of the string at DE *)
sys_cpm_bdos(s) ==
    CASE s.c.c = 2 -> [s EXCEPT !.host.console = Append(@, s.c.e)]
      [] s.c.c = 9 -> [s EXCEPT !.host.console = @ \o StringAt(s)]
      [] OTHER -> s

(* .COM files: a call of every BDOS function with two values of E, then RET *)
(* to the warm boot; a string printed with function 9 and JP 0; a program   *)
(* that halts after its call; one that replaces the RET at 0005h by a HALT  *)
ComFiles ==
    {<<14, f, 30, e, 205, 5, 0, OP_RET>> : f \in 0..255, e \in {DOLLAR, 65}}
      \cup {<<14, 9, 17, 9, 1, 205, 5, 0, OP_HALT, 72, 73, DOLLAR>>,
            <<14, 2, 30, 65, 205, 5, 0, OP_HALT>>,
            <<62, OP_HALT, 50, 5, 0, 14, 2, 30, 65, 205, 5, 0>>,
            <<195, 0, 0>>}

(* sys_cpm_init: memory zeroed, the file at 0100h, RET at 0005h, HALT at    *)
(* 0000h, PC = 0100h, and 0000h pushed below FFFEh                          *)
InitCpm ==
    \E com \in ComFiles :
        /\ cpu = [z80_init EXCEPT !.pc = 256, !.sp = 65532]
        /\ mem = LoadAt(LoadAt(LoadAt(<<>>, 256, com), 5, <<OP_RET>>), 0, <<OP_HALT>>)
        /\ out = <<>>
        /\ ret = 0
        /\ hist = <<>>
        /\ calls = 0
        /\ host = [TestHost EXCEPT !.sys = "cpm"]

(* one turn of the loop of sys_cpm_run: the BDOS intercept at 0005h, the    *)
(* exit test, and a step; the history names the turn exit or step and keeps *)
(* the CPU the turn began with                                              *)
CpmRun ==
    /\ calls < MaxCpm
    /\ ~host.exited
    /\ LET s == Mach(0)
           called == s.c.pc = 5
           s1 == IF called THEN sys_cpm_bdos(s) ELSE s
           leave == s1.c.pc = 0 \/ s1.c.halted # 0
           t == IF leave THEN [s1 EXCEPT !.host.exited = TRUE, !.clk = 0]
                ELSE z80_step(s1)
       IN  /\ called => (s.c.c = 9 => StringLen(s) >= 0)
           /\ cpu' = t.c
           /\ mem' = t.mem
           /\ out' = t.out
           /\ ret' = t.clk
           /\ host' = t.host
           /\ hist' = Remember(Call(IF leave THEN "exit" ELSE "step", 0))
    /\ calls' = calls + 1

SpecCpm == InitCpm /\ [][CpmRun]_vars

(* a turn of the CP/M loop that began at the BDOS entry *)
BdosCall(h) == h.host.sys = "cpm" /\ h.c.pc = 5

(* C26: in the loop of the CP/M shell a BDOS call with C = 0 ends the loop  *)
(* without a step; a turn that begins with PC = 0000h or with the CPU       *)
(* halted ends the loop, every other turn steps; a BDOS call with another   *)
(* function code returns to the address on top of the stack.                *)
C26_CpmLoop ==
    (host.sys = "cpm" /\ Called)
        => LET h == hist[1]
           IN  /\ (BdosCall(h) /\ h.c.c = 0) => (h.op = "exit" /\ cpu = h.c)
               /\ (h.c.pc = 0 \/ h.c.halted # 0) => h.op = "exit"
               /\ (h.c.pc \notin {0, 5} /\ h.c.halted = 0) => h.op = "step"
               /\ (BdosCall(h) /\ h.c.c # 0 /\ h.c.halted = 0)
                     => /\ h.op = "step"
                        /\ cpu.pc = WordAt(h.mem, h.c.sp)
                        /\ cpu.sp = U16(h.c.sp + 2)

(* ------------------------------------------------------------------------ *)
(* claims about the interrupt flip-flops and R                              *)
(* ------------------------------------------------------------------------ *)

(* the call h was a maskable interrupt that z80_interrupt accepted *)
Accepted(h) == Was(h, "interrupt") /\ h.c.iff1 # 0
(* the step h executes RETN or RETI (ED 45h, 4Dh, ... 7Dh) *)
ReturnsFromInterrupt(h) ==
    /\ Was(h, "step") /\ h.c.halted = 0
    /\ ByteAt(h, 0) = OP_ED /\ ByteAt(h, 1) \in {69 + 8 * y : y \in 0..7}

(* C28: an accepted maskable interrupt clears IFF1 and IFF2; afterwards     *)
(* IFF1 is raised only by the delay of an EI a step has executed or by      *)
(* RETN/RETI, never by an interrupt call; the step after the acceptance,    *)
(* the first of the handler, leaves IFF1 = 0 even when an EI delay was      *)
(* pending at the acceptance.                                               *)
C28_MaskedUntilEnabled ==
    /\ (Called /\ Accepted(hist[1])) => (cpu.iff1 = 0 /\ cpu.iff2 = 0)
    /\ (Called /\ hist[1].c.iff1 = 0 /\ cpu.iff1 # 0)
          => /\ Was(hist[1], "step")
             /\ hist[1].c.ei_delay # 0 \/ ReturnsFromInterrupt(hist[1])
    /\ (CalledTwice /\ Accepted(hist[2]) /\ Was(hist[1], "step")) => cpu.iff1 = 0

(* the step h executes LD R,A, behind an index prefix or not *)
LoadsR(h) ==
    \/ ByteAt(h, 0) = OP_ED /\ ByteAt(h, 1) = 79
    \/ ByteAt(h, 0) \in IndexPrefixes /\ ByteAt(h, 1) = OP_ED /\ ByteAt(h, 2) = 79
(* the step that has just returned consumed an index prefix alone: 4        *)
(* T-states, PC one further                                                 *)
PrefixAlone(h) ==
    /\ ByteAt(h, 0) \in IndexPrefixes
    /\ ret = 4 /\ cpu.pc = U16(h.c.pc + 1)
(* the opcode and prefix bytes the step consumed *)
BytesFetched(h) ==
    CASE ByteAt(h, 0) \notin PrefixBytes -> 1
      [] ByteAt(h, 0) \in {203, OP_ED} -> 2
      [] PrefixAlone(h) -> 1
      [] ByteAt(h, 1) = OP_ED -> 3
      [] OTHER -> 2
RefreshAdded(h) == (And(cpu.r, 127) + 128 - And(h.c.r, 127)) % 128

(* C29: a step adds to the low 7 bits of R one for every opcode or prefix   *)
(* byte it consumes and keeps bit 7: 1 without a prefix, 2 behind CB, ED,   *)
(* DD or FD, and 1 for a DD or FD that is consumed alone, before an opcode  *)
(* it does not affect or before another prefix (LD R,A apart).              *)
C29_RefreshPerByte ==
    (Called /\ Was(hist[1], "step") /\ hist[1].c.halted = 0 /\ ~LoadsR(hist[1]))
        => /\ RefreshAdded(hist[1]) = BytesFetched(hist[1])
           /\ And(cpu.r, 128) = And(hist[1].c.r, 128)

(* ------------------------------------------------------------------------ *)
(* the Intel HEX loader                                                     *)
(* ------------------------------------------------------------------------ *)

MEM_SIZE == 65536
LINE_SIZE == 256
MaxLoads == 2

(* data bytes whose two digits fgets leaves inside line[]: the line holds   *)
(* LINE_SIZE - 1 characters, nine of them before the data                   *)
LineBytes == (LINE_SIZE - 1 - 9) \div 2

(* records of well-formed lines: count, addr and type as sscanf reads them, *)
(* and the data bytes                                                       *)
DataRecord(addr, bytes) == [count |-> Len(bytes), addr |-> addr, type |-> 0, bytes |-> bytes]
EofRecord == [count |-> 0, addr |-> 0, type |-> 1, bytes |-> <<>>]
SegmentRecord == [count |-> 2, addr |-> 0, type |-> 2, bytes |-> <<16, 0>>]
Ramp(n) == [i \in 1..n |-> i % 256]

(* files: records at the start of the ROM, across the end of the ROM area,  *)
(* up to the last byte of memory and past it, with a full line and with     *)
(* more data than a line holds, with no data, overlapping, and after EOF    *)
HexFiles ==
    { <<DataRecord(0, <<195, 0, 1>>)>>,
      <<DataRecord(8190, <<1, 2, 3, 4>>)>>,
      <<DataRecord(100, <<>>)>>,
      <<DataRecord(65535, <<7>>)>>,
      <<DataRecord(65535, <<7, 6>>)>>,
      <<DataRecord(256, Ramp(LineBytes))>>,
      <<DataRecord(65281, Ramp(255))>>,
      <<DataRecord(0, <<195, 0, 1>>), DataRecord(1, <<0, 2>>)>>,
      <<SegmentRecord, DataRecord(65534, <<9, 8>>), EofRecord,
        DataRecord(65535, <<7, 6>>)>> }

(* the records load_hex stores: data records before the first EOF record *)
RECURSIVE Stored(_, _)
Stored(file, k) ==
    IF k > Len(file) \/ file[k].type = 1 THEN <<>>
    ELSE IF file[k].type # 0 THEN Stored(file, k + 1)
    ELSE <<file[k]>> \o Stored(file, k + 1)

(* the indices of memory[] the loop of load_hex writes: addr + i, an int *)
HexIndices(file) ==
    UNION {{Stored(file, 1)[k].addr + i : i \in 0..(Stored(file, 1)[k].count - 1)}
              : k \in 1..Len(Stored(file, 1))}

(* a store past the end of memory[] is undefined: the byte lands in the     *)
(* static behind the array, rom_size (low byte first), or in storage the    *)
(* model does not follow                                                    *)
Victims == {"none", "rom_size"}
(* the int a failed sscanf leaves unassigned holds the byte before or zero *)
Junk == {"stale", "zero"}

(* the byte the loop stores for data byte i of a record: the two digits, or *)
(* what the unassigned int holds when they lie past the line buffer         *)
ByteOf(rec, i, junk) ==
    IF i < LineBytes THEN rec.bytes[i + 1]
    ELSE IF junk = "stale" THEN rec.bytes[LineBytes] ELSE 0

(* the for loop of load_hex over one record: memory[addr + i] = byte for i  *)
(* from 0 to count - 1                                                      *)
StoreBytes(s, rec, junk, victim) ==
    LET written == {x \in rec.addr..(rec.addr + rec.count - 1) : x < MEM_SIZE}
        Now(x) == ByteOf(rec, x - rec.addr, junk)
        zeroed == {x \in written : Now(x) = 0 /\ x \in DOMAIN s.mem}
        m == [x \in {k \in written : Now(k) # 0} |-> Now(x)] @@ s.mem
        s1 == [s EXCEPT !.mem = IF zeroed = {} THEN m
                                ELSE [x \in (DOMAIN m) \ zeroed |-> m[x]]]
        past == rec.addr + rec.count - MEM_SIZE
        lo == Now(MEM_SIZE)
        hi == IF past >= 2 THEN Now(MEM_SIZE + 1) ELSE s.host.rom_size \div 256
    IN  IF past <= 0 \/ victim = "none" THEN s1
        ELSE [s1 EXCEPT !.host.rom_size = 256 * hi + lo]

RECURSIVE LoadRecords(_, _, _, _)
LoadRecords(s, recs, junk, victim) ==
    IF recs = <<>> THEN s
    ELSE LoadRecords(StoreBytes(s, Head(recs), junk, victim), Tail(recs), junk, victim)

load_hex(s, file, junk, victim) == LoadRecords(s, Stored(file, 1), junk, victim)

(* the file has a store with undefined behaviour of either kind *)
PastArray(file) == \E index \in HexIndices(file) : index >= MEM_SIZE
PastLine(file) == \E k \in 1..Len(Stored(file, 1)) : Stored(file, 1)[k].count > LineBytes

(* memory as sys_basic_init leaves it for the loader: FFh in the ROM area *)
InitHex ==
    /\ cpu = z80_init
    /\ mem = [a \in 0..(BASIC_ROM_SIZE - 1) |-> 255]
    /\ out = <<>>
    /\ ret = 0
    /\ hist = <<>>
    /\ calls = 0
    /\ host = [TestHost EXCEPT !.sys = "basic", !.rom_size = BASIC_ROM_SIZE]

HexLoad ==
    /\ calls < MaxLoads
    /\ \E file \in HexFiles :
         \E junk \in IF PastLine(file) THEN Junk ELSE {"zero"},
            victim \in IF PastArray(file) THEN Victims ELSE {"none"} :
           LET t == load_hex(Mach(0), file, junk, victim)
           IN  /\ mem' = t.mem
               /\ host' = t.host
               /\ hist' = Remember(Call("load_hex", file))
    /\ calls' = calls + 1
    /\ UNCHANGED <<cpu, out, ret>>

SpecHex == InitHex /\ [][HexLoad]_vars

(* C30: load_hex writes only to indices 0..65535 of memory[] and to nothing *)
(* else, whatever the address and the count of a data record; a load of the *)
(* file that was loaded just before leaves memory as it was.                *)
C30_LoaderInBounds ==
    (Called /\ Was(hist[1], "load_hex"))
        => /\ \A index \in HexIndices(hist[1].data) : index \in 0..(MEM_SIZE - 1)
           /\ host = hist[1].host
           /\ (CalledTwice /\ Was(hist[2], "load_hex") /\ hist[2].data = hist[1].data)
                 => mem = hist[1].mem

====
